---- MODULE Spec2Model ----
(***************************************************************************)
(* Honest weight aggregation and variance inference of the Ordered Forest  *)
(* (src/orf/old/orf.py).  Real numbers are exact rationals <<num, den>>    *)
(* in lowest terms with den > 0; a non-finite numpy value (x/0) is NaN.    *)
(* Vectors are sequences, matrices are sequences of rows, all 1-based:     *)
(* index i of the model is index i-1 of the Python code.                   *)
(***************************************************************************)
EXTENDS Integers, Sequences, FiniteSets, TLC

VARIABLES
    pc,                 \* position of the modelled call
    forest_apply,       \* leaf ids of the honest sample, n_est x n_estimators
    forest_apply_all,   \* leaf ids of the evaluation sample, n_samples x n_estimators
    tree_out,           \* the last per-tree weight contribution
    leaf_size,          \* the divisor column of the last per-tree contribution
    call,               \* the entry point being executed
    weight_method,      \* self.weight_method
    forest_apply_tr,    \* leaf ids of the training sample, n_tr x n_estimators
    ind_est,            \* original row numbers of the honest sample
    ind_tr,             \* original row numbers of the training sample
    forest_out,         \* the weight accumulator / shared buffer / final weights
    trees_out,          \* per-tree results collected by pool.map / pool.starmap
    tree,               \* number of trees the sequential loop has processed
    task,               \* position of each tree_weights task of the pool
    lock,               \* holder of _lock (0 when free)
    buffer_init,        \* the contents of the shared buffer when it was created
    buffer_read,        \* the buffer contents each task has read for its addition
    nclass,             \* number of ordered outcome classes
    probs,              \* cumulative cut-point probabilities, n x (nclass-1)
    class_probs,        \* the assembled class probabilities, n x nclass
    weights,            \* weights[k]: the weight rows of cut-point k passed on
    outcome_binary_est, \* outcome_binary_est[k]: 0/1 honest outcomes of cut-point k
    var_n,              \* the n_est argument of honest_variance
    cut_variance,       \* honest_variance[k] inside honest_variance, per row
    variance,           \* the variance matrix returned, n x nclass
    X_est,              \* margin: the covariates of the honest / fit sample
    forests,            \* margin: the fitted forests, as the cut-point predictions
    fitted,             \* the honest leaf means of one cut-point, max_id x n_estimators
    n_jobs,             \* self.n_jobs
    max_jobs,           \* cpu_count() of the machine
    random_state,       \* self.random_state: the configured seed or a RandomState
    subsample_random_seed, \* self.subsample_random_seed
    splits,             \* the (ind_tr, ind_est) partitions of the fits made so far
    returned,           \* the result of the first call made with each argument list
    n_calls,            \* the number of predict / margin calls made so far
    X_eval,             \* margin: the covariates of the evaluation sample
    eval_point,         \* margin: "mean", "atmean" or "atmedian"
    window,             \* margin: the share of the standard deviation, h_std
    n_unique,           \* margin: the number of distinct values per covariate
    X_up,               \* margin: the up-shifted evaluation points
    X_down,             \* margin: the down-shifted evaluation points
    forest_pred_up,     \* margin: mean cut-point predictions, X_cols x (nclass-1)
    forest_pred_down,   \* margin: the same for the down-shifted matrices
    margins             \* margin: the marginal effects, X_cols x nclass

treeVars == <<forest_apply, forest_apply_all, tree_out, leaf_size>>
forestVars == <<call, weight_method, buffer_init, buffer_read, forest_apply_tr, ind_est, ind_tr,
                forest_out, trees_out, tree, task, lock>>
probVars == <<nclass, probs, class_probs>>
varVars == <<weights, outcome_binary_est, var_n, cut_variance, variance>>
fittedVars == <<X_est, forests, fitted>>
estimatorVars == <<n_jobs, max_jobs, random_state, subsample_random_seed, splits,
                   returned, n_calls>>
marginVars == <<fittedVars, X_eval, eval_point, window, n_unique, X_up, X_down,
                forest_pred_up, forest_pred_down, margins>>
otherVars == <<probVars, varVars, marginVars, estimatorVars>>
vars == <<pc, treeVars, forestVars, otherVars>>

----------------------------------------------------------------------------
(* Bounds of the per-tree specification.                                   *)
TreeMaxEst == 4      \* honest sample sizes 1..TreeMaxEst
TreeNAll == 2        \* evaluation sample size
TreeMaxLeaf == 1     \* leaf ids 0..TreeMaxLeaf

(* Bounds of the forest specification.                                     *)
NTrees == 2          \* n_estimators
NJobs == 2           \* n_jobs, the size of the worker pool

(* Bounds of the probability specification.                                *)
ProbMaxClass == 3    \* nclass in 2..ProbMaxClass
ProbDen == 10        \* cumulative probabilities are multiples of 1/ProbDen
ProbMargin == 1      \* ... from -ProbMargin/ProbDen to 1 + ProbMargin/ProbDen

(* Bounds of the variance specification.                                   *)
VarMaxTr == 3        \* training sample sizes 1..VarMaxTr
VarMaxClass == 3     \* nclass in 2..VarMaxClass

----------------------------------------------------------------------------
(* Exact arithmetic standing for numpy float64 / Python numbers.           *)
Abs(x) == IF x < 0 THEN -x ELSE x

RECURSIVE GCD(_, _)
GCD(a, b) == IF b = 0 THEN a ELSE GCD(b, a % b)

NaN == <<0, 0>>

IsNaN(q) == q[2] = 0

Frac(n, d) ==
    IF d = 0 THEN NaN
    ELSE LET g == GCD(Abs(n), Abs(d))
             s == IF d < 0 THEN -1 ELSE 1
         IN  <<(s * n) \div g, (s * d) \div g>>

Num(n) == <<n, 1>>

RAdd(a, b) ==
    IF IsNaN(a) \/ IsNaN(b) THEN NaN
    ELSE Frac(a[1] * b[2] + b[1] * a[2], a[2] * b[2])

RSub(a, b) ==
    IF IsNaN(a) \/ IsNaN(b) THEN NaN
    ELSE Frac(a[1] * b[2] - b[1] * a[2], a[2] * b[2])

RMul(a, b) ==
    IF IsNaN(a) \/ IsNaN(b) THEN NaN
    ELSE Frac(a[1] * b[1], a[2] * b[2])

\* numpy true division: a zero divisor gives a non-finite entry, no exception
RDiv(a, b) ==
    IF IsNaN(a) \/ IsNaN(b) \/ b[1] = 0 THEN NaN
    ELSE Frac(a[1] * b[2], a[2] * b[1])

RLeq(a, b) == ~IsNaN(a) /\ ~IsNaN(b) /\ a[1] * b[2] <= b[1] * a[2]

RECURSIVE RSum(_)
RSum(v) == IF v = <<>> THEN Num(0) ELSE RAdd(v[1], RSum(Tail(v)))

RECURSIVE ISum(_)
ISum(v) == IF v = <<>> THEN 0 ELSE v[1] + ISum(Tail(v))

----------------------------------------------------------------------------
(* numpy / sklearn helpers used by the per-tree weight computation.        *)
Range(v) == {v[i] : i \in DOMAIN v}

RECURSIVE SortSet(_)
SortSet(S) ==
    IF S = {} THEN <<>>
    ELSE LET m == CHOOSE x \in S : \A y \in S : x <= y
         IN  <<m>> \o SortSet(S \ {m})

\* np.unique: the sorted distinct values
Unique(v) == SortSet(Range(v))

\* np.setdiff1d(a, b): the sorted distinct values of a that are not in b
SetDiff1d(a, b) == SortSet(Range(a) \ Range(b))

\* forest_apply[:, tree]
Column(M, t) == [i \in 1..Len(M) |-> M[i][t]]

\* a one-hot encoding whose columns follow the order of first appearance
\* instead of the sorted order
RECURSIVE FirstSeen(_)
FirstSeen(v) ==
    IF v = <<>> THEN <<>>
    ELSE LET rest == FirstSeen(SubSeq(v, 1, Len(v) - 1))
         IN  IF v[Len(v)] \in {rest[k] : k \in DOMAIN rest} THEN rest
             ELSE Append(rest, v[Len(v)])

OneHotFirstSeen(v) ==
    LET cats == FirstSeen(v)
    IN  [i \in 1..Len(v) |-> [c \in 1..Len(cats) |-> IF v[i] = cats[c] THEN 1 ELSE 0]]

\* OneHotEncoder().fit_transform(v.reshape(-1, 1)): one column per distinct
\* value of v, in sorted order
OneHot(v) ==
    LET cats == Unique(v)
    IN  [i \in 1..Len(v) |-> [c \in 1..Len(cats) |-> IF v[i] = cats[c] THEN 1 ELSE 0]]

NCols(M) == IF Len(M) = 0 THEN 0 ELSE Len(M[1])

Transpose(M) == [c \in 1..NCols(M) |-> [i \in 1..Len(M) |-> M[i][c]]]

\* A.dot(B) for A of shape (n, k) and B of shape (k, m)
Dot(A, B) ==
    [i \in 1..Len(A) |-> [j \in 1..NCols(B) |->
        ISum([c \in 1..Len(B) |-> A[i][c] * B[c][j]])]]

\* M[:r, :c]
Slice(M, r, c) ==
    LET rr == IF r < Len(M) THEN r ELSE Len(M)
    IN  [i \in 1..rr |-> SubSeq(M[i], 1, IF c < Len(M[i]) THEN c ELSE Len(M[i]))]

----------------------------------------------------------------------------
(* The per-tree weight contribution.                                       *)

\* The per-tree contribution with a leaf size that does not count the
\* placeholder appended for a leaf without honest occupants.
TreeWeightsNoPlaceholder(leaf_IDs_honest, leaf_IDs_all, n_samples, n_est) ==
    LET raw == [i \in 1..n_samples |-> [j \in 1..n_est |->
                   IF leaf_IDs_all[i] = leaf_IDs_honest[j] THEN 1 ELSE 0]]
        size == [i \in 1..n_samples |-> ISum(raw[i])]
    IN  [err |-> "none",
         leaf_size |-> size,
         tree_out |-> [i \in 1..n_samples |-> [j \in 1..n_est |->
                          RDiv(Num(raw[i][j]), Num(size[i]))]]]

\* The per-tree contribution without the truncation to n_est columns.
TreeWeightsNoTruncate(leaf_IDs_honest, leaf_IDs_all, n_samples, n_est) ==
    LET u == Unique(leaf_IDs_honest \o leaf_IDs_all)
        honest_ext == leaf_IDs_honest \o SetDiff1d(leaf_IDs_all, leaf_IDs_honest)
        raw == [i \in 1..n_samples |-> [j \in 1..Len(honest_ext) |->
                   IF leaf_IDs_all[i] = honest_ext[j] THEN 1 ELSE 0]]
        size == [i \in 1..n_samples |-> ISum(raw[i])]
    IN  [err |-> "none",
         leaf_size |-> size,
         tree_out |-> [i \in 1..n_samples |-> [j \in 1..Len(honest_ext) |->
                          RDiv(Num(raw[i][j]), Num(size[i]))]]]

\* The body shared by honest_weight_numpy, honest_weight_numpy_out and the
\* inline numpy_loop of fit, from the two leaf-id vectors of one tree.
TreeWeights(leaf_IDs_honest, leaf_IDs_all, n_samples, n_est) ==
    LET leaf_IDs_honest_u == Unique(leaf_IDs_honest)
        leaf_IDs_all_u == Unique(leaf_IDs_all)
        same == leaf_IDs_honest_u = leaf_IDs_all_u
        extra_honest == SetDiff1d(leaf_IDs_all_u, leaf_IDs_honest_u)
        extra_all == SetDiff1d(leaf_IDs_honest_u, leaf_IDs_all_u)
        leaf_IDs_honest_ext ==
            IF same THEN leaf_IDs_honest ELSE leaf_IDs_honest \o extra_honest
        leaf_IDs_all_ext ==
            IF same THEN leaf_IDs_all ELSE leaf_IDs_all \o extra_all
        onehot_honest == Transpose(OneHot(leaf_IDs_honest_ext))
        onehot_all == Slice(OneHot(leaf_IDs_all_ext), n_samples,
                            Len(Unique(leaf_IDs_all_ext)))
        dense == Dot(onehot_all, onehot_honest)
        size == [i \in 1..Len(dense) |-> ISum(dense[i])]
        cut == IF same THEN dense ELSE Slice(dense, n_samples, n_est)
    IN  IF NCols(onehot_all) # Len(onehot_honest)
        THEN [err |-> "ValueError", leaf_size |-> <<>>, tree_out |-> <<>>]
        ELSE [err |-> "none",
              leaf_size |-> size,
              tree_out |-> [i \in 1..Len(cut) |-> [j \in 1..Len(cut[i]) |->
                               RDiv(Num(cut[i][j]), Num(size[i]))]]]

\* honest_weight_numpy_out(tree, forest_apply, forest_apply_all, n_samples, n_est)
honest_weight_numpy_out(t, fa, fa_all, n_samples, n_est) ==
    TreeWeights(Column(fa, t), Column(fa_all, t), n_samples, n_est)

\* BaseOrderedForest.honest_weight_numpy(tree, forest_apply, forest_apply_all,
\* n_samples, n_est)
honest_weight_numpy(t, fa, fa_all, n_samples, n_est) ==
    TreeWeights(Column(fa, t), Column(fa_all, t), n_samples, n_est)

----------------------------------------------------------------------------
(* Specification of one per-tree call: the leaf ids of one tree are drawn  *)
(* from the bounded sets and either function is applied to them.           *)
TreeLeaves == 0..TreeMaxLeaf

\* the forest-level state while a single per-tree call is examined
ForestIdle ==
    /\ call = "tree"
    /\ weight_method = "none"
    /\ forest_apply_tr = <<>>
    /\ ind_est = <<>>
    /\ ind_tr = <<>>
    /\ forest_out = <<>>
    /\ trees_out = <<>>
    /\ tree = 0
    /\ task = <<>>
    /\ lock = 0
    /\ buffer_init = <<>>
    /\ buffer_read = <<>>

\* the probability state while no class probabilities are assembled
ProbIdle ==
    /\ nclass = 0
    /\ probs = <<>>
    /\ class_probs = <<>>

\* the variance state while no variance is estimated
VarIdle ==
    /\ weights = <<>>
    /\ outcome_binary_est = <<>>
    /\ var_n = 0
    /\ cut_variance = <<>>
    /\ variance = <<>>

\* the state of margin while margin is not called
MarginIdle ==
    /\ X_est = <<>> /\ forests = <<>> /\ fitted = <<>>
    /\ X_eval = <<>> /\ eval_point = "none" /\ window = Num(0)
    /\ n_unique = <<>>
    /\ X_up = <<>> /\ X_down = <<>>
    /\ forest_pred_up = <<>> /\ forest_pred_down = <<>>
    /\ margins = <<>>

\* the estimator attributes and the call record while they are not examined
EstimatorIdle ==
    /\ n_jobs = 1 /\ max_jobs = 1
    /\ random_state = 0 /\ subsample_random_seed = 0
    /\ splits = <<>>
    /\ returned = <<>> /\ n_calls = 0

OtherIdle(group) ==
    /\ group = "prob" \/ ProbIdle
    /\ VarIdle
    /\ MarginIdle
    /\ EstimatorIdle

LeafMatrices(n, cols, leaves) == [1..n -> [1..cols -> leaves]]

InitTree ==
    /\ pc = "start"
    /\ \E n_est \in 1..TreeMaxEst : forest_apply \in LeafMatrices(n_est, 1, TreeLeaves)
    /\ forest_apply_all \in LeafMatrices(TreeNAll, 1, TreeLeaves)
    /\ tree_out = <<>>
    /\ leaf_size = <<>>
    /\ ForestIdle
    /\ OtherIdle("tree")

CallHonestWeightNumpyOut ==
    /\ pc = "start"
    /\ LET r == honest_weight_numpy_out(1, forest_apply, forest_apply_all,
                                        Len(forest_apply_all), Len(forest_apply))
       IN  /\ tree_out' = r.tree_out
           /\ leaf_size' = r.leaf_size
           /\ pc' = IF r.err = "none" THEN "tree_done" ELSE "tree_error"
    /\ UNCHANGED <<otherVars, forest_apply, forest_apply_all, forestVars>>

CallHonestWeightNumpy ==
    /\ pc = "start"
    /\ LET r == honest_weight_numpy(1, forest_apply, forest_apply_all,
                                    Len(forest_apply_all), Len(forest_apply))
       IN  /\ tree_out' = r.tree_out
           /\ leaf_size' = r.leaf_size
           /\ pc' = IF r.err = "none" THEN "tree_done_method" ELSE "tree_error"
    /\ UNCHANGED <<otherVars, forest_apply, forest_apply_all, forestVars>>

\* the body of the numpy_loop branch of fit for one tree
InlineNumpyLoopBody ==
    /\ pc = "start"
    /\ LET r == TreeWeights(Column(forest_apply, 1), Column(forest_apply_all, 1),
                            Len(forest_apply_all), Len(forest_apply))
       IN  /\ tree_out' = r.tree_out
           /\ leaf_size' = r.leaf_size
           /\ pc' = IF r.err = "none" THEN "tree_done_inline" ELSE "tree_error"
    /\ UNCHANGED <<otherVars, forest_apply, forest_apply_all, forestVars>>

NextTree == CallHonestWeightNumpyOut \/ CallHonestWeightNumpy \/ InlineNumpyLoopBody

SpecTree == InitTree /\ [][NextTree]_vars

TreeDone == pc \in {"tree_done", "tree_done_method", "tree_done_inline"}

\* the number of honest observations whose leaf id in the tree is id
HonestCount(id) == Cardinality({j \in 1..Len(forest_apply) : forest_apply[j][1] = id})

RowSum(M, i) == RSum(M[i])

----------------------------------------------------------------------------
\* C1: each row of a per-tree contribution sums to exactly 0 or exactly 1,
\* and to 1 exactly when the evaluation observation's leaf id occurs in the
\* honest vector.
C1_RowSumZeroOrOne ==
    TreeDone =>
        \A i \in 1..Len(forest_apply_all) :
            /\ RowSum(tree_out, i) \in {Num(0), Num(1)}
            /\ RowSum(tree_out, i) = Num(1) <=> HonestCount(forest_apply_all[i][1]) >= 1

C1_Witness ==
    /\ TreeDone
    /\ \E i, k \in 1..Len(forest_apply_all) :
        /\ HonestCount(forest_apply_all[i][1]) >= 2
        /\ HonestCount(forest_apply_all[k][1]) = 0
        /\ RowSum(tree_out, i) = Num(1)
        /\ RowSum(tree_out, k) = Num(0)

----------------------------------------------------------------------------
\* C2: entry (i, j) of a per-tree contribution is 1/c when evaluation
\* observation i and honest observation j share a leaf id, c being the number
\* of honest observations with that id, and 0 otherwise; the result has shape
\* (n_eval, n_honest) whether or not both sides populate the same leaves.
C2_EntryIsInverseLeafCount ==
    TreeDone =>
        /\ Len(tree_out) = Len(forest_apply_all)
        /\ \A i \in 1..Len(tree_out) :
            /\ Len(tree_out[i]) = Len(forest_apply)
            /\ \A j \in 1..Len(forest_apply) :
                tree_out[i][j] =
                    IF forest_apply_all[i][1] = forest_apply[j][1]
                    THEN Frac(1, HonestCount(forest_apply[j][1]))
                    ELSE Num(0)

C2_Witness ==
    /\ TreeDone
    /\ forest_apply = <<(<<0>>), (<<0>>), (<<1>>), (<<1>>)>>
    /\ forest_apply_all = <<(<<0>>), (<<1>>)>>
    /\ tree_out = << <<Frac(1, 2), Frac(1, 2), Num(0), Num(0)>>,
                     <<Num(0), Num(0), Frac(1, 2), Frac(1, 2)>> >>

\* C3: an evaluation observation in a leaf without honest occupants raises
\* no error and divides by a leaf size of at least 1 (the placeholder), and
\* its truncated row is all zeros, at every call site of the computation.
C3_EmptyLeafRowIsZero ==
    /\ pc # "tree_error"
    /\ TreeDone =>
        \A i \in 1..Len(forest_apply_all) :
            HonestCount(forest_apply_all[i][1]) = 0 =>
                /\ leaf_size[i] >= 1
                /\ Len(tree_out[i]) = Len(forest_apply)
                /\ \A j \in 1..Len(tree_out[i]) : tree_out[i][j] = Num(0)

C3_Witness ==
    /\ pc = "tree_done_inline"
    /\ \E i \in 1..Len(forest_apply_all) :
        /\ HonestCount(forest_apply_all[i][1]) = 0
        /\ leaf_size[i] = 1
        /\ \A j \in 1..Len(tree_out[i]) : tree_out[i][j] = Num(0)

----------------------------------------------------------------------------
(* Aggregation of the per-tree contributions into the forest weights: the  *)
(* five weight methods of fit and the sequential loop of predict_weights.  *)

\* the sample shape and leaf ids of the forest specification
ForestShape == [n_est |-> 1, n_tr |-> 1, n_new |-> 1]
ForestLeaves == {0, 1}
Trees == 1..NTrees

WeightMethods == {"numpy_loop", "numpy_loop_mpire", "numpy_loop_multi",
                  "numpy_loop_shared_multi", "numpy_loop_shared_mpire"}
SharedMethods == {"numpy_loop_shared_multi", "numpy_loop_shared_mpire"}

\* np.zeros((n, m))
Zeros(n, m) == [i \in 1..n |-> [j \in 1..m |-> Num(0)]]

\* sharedmem.empty((n, m)): the contents are whatever the mapping holds,
\* zero pages or data left by an earlier use
SharedmemEmpty(n, m) == {Zeros(n, m), [i \in 1..n |-> [j \in 1..m |-> Num(1)]]}

\* A + B, elementwise
MAdd(A, B) == [i \in 1..Len(A) |-> [j \in 1..Len(A[i]) |-> RAdd(A[i][j], B[i][j])]]

\* A / k for a scalar k
MDivScalar(A, k) == [i \in 1..Len(A) |-> [j \in 1..Len(A[i]) |-> RDiv(A[i][j], Num(k))]]

\* the sum of the matrices ms[1..k], starting from start
RECURSIVE MSum(_, _, _)
MSum(ms, k, start) == IF k = 0 THEN start ELSE MAdd(MSum(ms, k - 1, start), ms[k])

\* v.argsort() for a vector of distinct values
Argsort(v) ==
    [k \in 1..Len(v) |-> CHOOSE q \in 1..Len(v) : v[q] = SortSet(Range(v))[k]]

\* M[idx, :]
Rows(M, idx) == [k \in 1..Len(idx) |-> M[idx[k]]]

\* train_test_split(np.arange(n_samples)): a shuffled split of the row numbers
Splits(n_tr, n_est) ==
    {sp \in [tr : [1..n_tr -> 1..(n_tr + n_est)], est : [1..n_est -> 1..(n_tr + n_est)]] :
        /\ Cardinality(Range(sp.tr) \cup Range(sp.est)) = n_tr + n_est}

n_samples == Len(forest_apply_all)
n_est == Len(forest_apply)

InitFit ==
    /\ pc = "start"
    /\ call = "fit"
    /\ weight_method \in WeightMethods
    /\ forest_apply \in LeafMatrices(ForestShape.n_est, NTrees, ForestLeaves)
    /\ forest_apply_tr \in LeafMatrices(ForestShape.n_tr, NTrees, ForestLeaves)
    /\ \E sp \in Splits(ForestShape.n_tr, ForestShape.n_est) :
        ind_tr = sp.tr /\ ind_est = sp.est
    /\ forest_apply_all = <<>>
    /\ tree_out = <<>> /\ leaf_size = <<>>
    /\ forest_out = <<>> /\ trees_out = <<>>
    /\ tree = 0 /\ task = <<>> /\ lock = 0
    /\ buffer_init = <<>> /\ buffer_read = <<>>

InitPredictWeights ==
    /\ pc = "start"
    /\ call = "predict_weights"
    /\ weight_method = "numpy_loop"
    /\ forest_apply \in LeafMatrices(ForestShape.n_est, NTrees, ForestLeaves)
    /\ forest_apply_tr = <<>> /\ ind_tr = <<>> /\ ind_est = <<>>
    /\ forest_apply_all \in LeafMatrices(ForestShape.n_new, NTrees, ForestLeaves)
    /\ tree_out = <<>> /\ leaf_size = <<>>
    /\ forest_out = <<>> /\ trees_out = <<>>
    /\ tree = 0 /\ task = <<>> /\ lock = 0
    /\ buffer_init = <<>> /\ buffer_read = <<>>

InitForest == (InitFit \/ InitPredictWeights) /\ OtherIdle("forest")

\* fit: the leaf ids of all observations, restored to the original row order
FitApplyAll ==
    /\ pc = "start" /\ call = "fit"
    /\ LET stacked == forest_apply \o forest_apply_tr
           ind_all == ind_est \o ind_tr
       IN  forest_apply_all' = Rows(stacked, Argsort(ind_all))
    /\ pc' = "weights"
    /\ UNCHANGED <<otherVars, forest_apply, tree_out, leaf_size, forestVars>>

\* fit, weight_method numpy_loop: the storage matrix
NumpyLoopStart ==
    /\ pc = "weights" /\ call = "fit" /\ weight_method = "numpy_loop"
    /\ forest_out' = Zeros(n_samples, n_est)
    /\ tree' = 0
    /\ pc' = "loop"
    /\ UNCHANGED <<otherVars, treeVars, call, weight_method, buffer_init, buffer_read, forest_apply_tr, ind_est, ind_tr,
                   trees_out, task, lock>>

\* fit, weight_method numpy_loop: one iteration of the loop over trees
NumpyLoopStep ==
    /\ pc = "loop" /\ call = "fit" /\ tree < NTrees
    /\ LET r == TreeWeights(Column(forest_apply, tree + 1),
                            Column(forest_apply_all, tree + 1), n_samples, n_est)
       IN  /\ tree_out' = r.tree_out
           /\ leaf_size' = r.leaf_size
           /\ forest_out' = MAdd(forest_out, r.tree_out)
    /\ tree' = tree + 1
    /\ pc' = IF tree + 1 = NTrees THEN "summed" ELSE "loop"
    /\ UNCHANGED <<otherVars, forest_apply, forest_apply_all, call, weight_method, buffer_init, buffer_read,
                   forest_apply_tr, ind_est, ind_tr, trees_out, task, lock>>

\* fit, weight_method numpy_loop_mpire / numpy_loop_multi: the pool is set up
PoolMapStart ==
    /\ pc = "weights" /\ call = "fit"
    /\ weight_method \in {"numpy_loop_mpire", "numpy_loop_multi"}
    /\ trees_out' = [t \in Trees |-> <<>>]
    /\ task' = [t \in Trees |-> "pending"]
    /\ forest_out' = IF weight_method = "numpy_loop_mpire"
                     THEN Zeros(n_samples, n_est) ELSE forest_out
    /\ pc' = "map"
    /\ UNCHANGED <<otherVars, treeVars, call, weight_method, buffer_init, buffer_read,
                   forest_apply_tr, ind_est, ind_tr, tree, lock>>

\* one task of pool.map / pool.starmap returns its tree's matrix; the tasks
\* finish in any order and the result list is ordered by tree
PoolMapTask(t) ==
    /\ pc = "map" /\ task[t] = "pending"
    /\ LET r == IF weight_method = "numpy_loop_mpire"
                THEN honest_weight_numpy(t, forest_apply, forest_apply_all,
                                         n_samples, n_est)
                ELSE honest_weight_numpy_out(t, forest_apply, forest_apply_all,
                                             n_samples, n_est)
       IN  trees_out' = [trees_out EXCEPT ![t] = r.tree_out]
    /\ task' = [task EXCEPT ![t] = "done"]
    /\ UNCHANGED <<otherVars, pc, treeVars, call, weight_method, buffer_init, buffer_read,
                   forest_apply_tr, ind_est, ind_tr, forest_out, tree, lock>>

\* one task of pool.map / pool.starmap raises inside the per-tree function
PoolMapTaskRaise(t) ==
    /\ pc = "map" /\ task[t] = "pending"
    /\ task' = [task EXCEPT ![t] = "raised"]
    /\ UNCHANGED <<otherVars, pc, treeVars, call, weight_method, buffer_init, buffer_read,
                   forest_apply_tr, ind_est, ind_tr, forest_out, trees_out, tree, lock>>

\* a task has raised: mpire's pool.map terminates the workers and re-raises
\* at once, multiprocessing's pool.starmap re-raises once every task has
\* ended; the exception leaves fit and no forest_out is assigned or kept
Finished == {t \in DOMAIN task : task[t] \in {"done", "raised"}}

Reraises ==
    /\ \E t \in Trees : task[t] = "raised"
    /\ weight_method \in {"numpy_loop_multi", "numpy_loop_shared_multi"} => Finished = Trees

PoolMapError ==
    /\ pc = "map" /\ Reraises
    /\ forest_out' = <<>>
    /\ trees_out' = <<>>
    /\ pc' = "error"
    /\ UNCHANGED <<otherVars, treeVars, call, weight_method, buffer_init, buffer_read,
                   forest_apply_tr, ind_est, ind_tr, tree, task, lock>>

\* trees_out.sum(0) / sum(tree_out) once every task has returned
PoolMapReduce ==
    /\ pc = "map" /\ \A t \in Trees : task[t] = "done"
    /\ forest_out' = MSum(trees_out, NTrees, Zeros(n_samples, n_est))
    /\ trees_out' = <<>>
    /\ pc' = "summed"
    /\ UNCHANGED <<otherVars, treeVars, call, weight_method, buffer_init, buffer_read, forest_apply_tr, ind_est, ind_tr,
                   tree, task, lock>>

\* forest_weights_multi / forest_weights_mpire: the shared buffer and the pool
SharedStart ==
    /\ pc = "weights" /\ call = "fit" /\ weight_method \in SharedMethods
    /\ forest_out' \in SharedmemEmpty(n_samples, n_est)
    /\ buffer_init' = forest_out'
    /\ buffer_read' = [t \in Trees |-> <<>>]
    /\ task' = [t \in Trees |-> "pending"]
    /\ lock' = 0
    /\ pc' = "shared"
    /\ UNCHANGED <<otherVars, treeVars, call, weight_method, forest_apply_tr, ind_est, ind_tr,
                   trees_out, tree>>

Running ==
    {t \in DOMAIN task : task[t] \in {"computing", "computed", "locked", "read", "updated"}}

\* a worker that takes _lock when it takes the task
TaskStartHoldingLock(t) ==
    /\ pc = "shared" /\ task[t] = "pending" /\ lock = 0
    /\ Cardinality(Running) < NJobs
    /\ lock' = t
    /\ task' = [task EXCEPT ![t] = "computing"]
    /\ UNCHANGED <<otherVars, pc, treeVars, call, weight_method, buffer_init, buffer_read,
                   forest_apply_tr, ind_est, ind_tr, forest_out, trees_out, tree>>

\* a free worker of the pool takes a task
TaskStart(t) ==
    /\ pc = "shared" /\ task[t] = "pending"
    /\ Cardinality(Running) < NJobs
    /\ task' = [task EXCEPT ![t] = "computing"]
    /\ UNCHANGED <<otherVars, pc, treeVars, call, weight_method, buffer_init, buffer_read, forest_apply_tr, ind_est,
                   ind_tr, forest_out, trees_out, tree, lock>>

\* tree_weights: tree_out = honest_weight_numpy_out(...)
TaskCompute(t) ==
    /\ pc = "shared" /\ task[t] = "computing"
    /\ task' = [task EXCEPT ![t] = "computed"]
    /\ UNCHANGED <<otherVars, pc, treeVars, call, weight_method, buffer_init, buffer_read, forest_apply_tr, ind_est,
                   ind_tr, forest_out, trees_out, tree, lock>>

\* tree_weights: honest_weight_numpy_out(...) raises
TaskRaise(t) ==
    /\ pc = "shared" /\ task[t] = "computing"
    /\ task' = [task EXCEPT ![t] = "raised"]
    /\ UNCHANGED <<otherVars, pc, treeVars, call, weight_method, buffer_init, buffer_read,
                   forest_apply_tr, ind_est, ind_tr, forest_out, trees_out, tree, lock>>

\* the addition entered without waiting for _lock
TaskAcquireNoLock(t) ==
    /\ pc = "shared" /\ task[t] = "computed"
    /\ lock' = t
    /\ task' = [task EXCEPT ![t] = "locked"]
    /\ UNCHANGED <<otherVars, pc, treeVars, call, weight_method, buffer_init, buffer_read,
                   forest_apply_tr, ind_est, ind_tr, forest_out, trees_out, tree>>

\* tree_weights: _lock.acquire()
TaskAcquire(t) ==
    /\ pc = "shared" /\ task[t] = "computed" /\ lock = 0
    /\ lock' = t
    /\ task' = [task EXCEPT ![t] = "locked"]
    /\ UNCHANGED <<otherVars, pc, treeVars, call, weight_method, buffer_init, buffer_read, forest_apply_tr, ind_est,
                   ind_tr, forest_out, trees_out, tree>>

\* the addition computed from the contents the buffer had when it was created
TaskReadStale(t) ==
    /\ pc = "shared" /\ task[t] = "locked"
    /\ buffer_read' = [buffer_read EXCEPT ![t] = buffer_init]
    /\ task' = [task EXCEPT ![t] = "read"]
    /\ UNCHANGED <<otherVars, pc, treeVars, call, weight_method, buffer_init, forest_apply_tr,
                   ind_est, ind_tr, forest_out, trees_out, tree, lock>>

\* tree_weights: _shared_buffer += tree_out, the read of the buffer
TaskRead(t) ==
    /\ pc = "shared" /\ task[t] = "locked"
    /\ buffer_read' = [buffer_read EXCEPT ![t] = forest_out]
    /\ task' = [task EXCEPT ![t] = "read"]
    /\ UNCHANGED <<otherVars, pc, treeVars, call, weight_method, buffer_init, forest_apply_tr,
                   ind_est, ind_tr, forest_out, trees_out, tree, lock>>

\* tree_weights: _shared_buffer += tree_out, the write of the sum
TaskUpdate(t) ==
    /\ pc = "shared" /\ task[t] = "read"
    /\ forest_out' = MAdd(buffer_read[t],
                          honest_weight_numpy_out(t, forest_apply, forest_apply_all,
                                                  n_samples, n_est).tree_out)
    /\ task' = [task EXCEPT ![t] = "updated"]
    /\ UNCHANGED <<otherVars, pc, treeVars, call, weight_method, buffer_init, buffer_read,
                   forest_apply_tr, ind_est, ind_tr, trees_out, tree, lock>>

\* tree_weights: _lock.release()
TaskRelease(t) ==
    /\ pc = "shared" /\ task[t] = "updated"
    /\ lock' = 0
    /\ task' = [task EXCEPT ![t] = "done"]
    /\ UNCHANGED <<otherVars, pc, treeVars, call, weight_method, buffer_init, buffer_read, forest_apply_tr, ind_est,
                   ind_tr, forest_out, trees_out, tree>>

\* the pool joined and the buffer returned although a task has raised
SharedJoinIgnoringRaise ==
    /\ pc = "shared" /\ Finished = Trees
    /\ pc' = "summed"
    /\ UNCHANGED <<otherVars, treeVars, forestVars>>

\* pool.close(); pool.join() / pool.stop_and_join(); return forest_out
SharedJoin ==
    /\ pc = "shared" /\ \A t \in Trees : task[t] = "done"
    /\ pc' = "summed"
    /\ UNCHANGED <<otherVars, treeVars, forestVars>>

\* forest_weights_multi / forest_weights_mpire: the exception of a task
\* leaves the function before its return, and fit before forest_out is used
SharedError ==
    /\ pc = "shared" /\ Reraises
    /\ forest_out' = <<>>
    /\ pc' = "error"
    /\ UNCHANGED <<otherVars, treeVars, call, weight_method, buffer_init, buffer_read,
                   forest_apply_tr, ind_est, ind_tr, trees_out, tree, task, lock>>

\* predict_weights: the storage matrix
PredictWeightsStart ==
    /\ pc = "start" /\ call = "predict_weights"
    /\ forest_out' = Zeros(n_samples, n_est)
    /\ tree' = 0
    /\ pc' = "loop"
    /\ UNCHANGED <<otherVars, treeVars, call, weight_method, buffer_init, buffer_read, forest_apply_tr, ind_est, ind_tr,
                   trees_out, task, lock>>

\* predict_weights: one iteration of the loop over trees
PredictWeightsStep ==
    /\ pc = "loop" /\ call = "predict_weights" /\ tree < NTrees
    /\ LET r == honest_weight_numpy(tree + 1, forest_apply, forest_apply_all,
                                    n_samples, n_est)
       IN  /\ tree_out' = r.tree_out
           /\ leaf_size' = r.leaf_size
           /\ forest_out' = MAdd(forest_out, r.tree_out)
    /\ tree' = tree + 1
    /\ pc' = IF tree + 1 = NTrees THEN "summed" ELSE "loop"
    /\ UNCHANGED <<otherVars, forest_apply, forest_apply_all, call, weight_method, buffer_init, buffer_read,
                   forest_apply_tr, ind_est, ind_tr, trees_out, task, lock>>

\* forest_out = forest_out / self.n_estimators; weights[class_idx] = forest_out
DivideByTrees ==
    /\ pc = "summed"
    /\ forest_out' = MDivScalar(forest_out, NTrees)
    /\ pc' = "done"
    /\ UNCHANGED <<otherVars, treeVars, call, weight_method, buffer_init, buffer_read, forest_apply_tr, ind_est, ind_tr,
                   trees_out, tree, task, lock>>

NextForest ==
    \/ FitApplyAll
    \/ NumpyLoopStart
    \/ NumpyLoopStep
    \/ PoolMapStart
    \/ \E t \in Trees : PoolMapTask(t)
    \/ \E t \in Trees : PoolMapTaskRaise(t)
    \/ PoolMapReduce
    \/ PoolMapError
    \/ SharedStart
    \/ \E t \in Trees : TaskStart(t)
    \/ \E t \in Trees : TaskCompute(t)
    \/ \E t \in Trees : TaskRaise(t)
    \/ \E t \in Trees : TaskAcquire(t)
    \/ \E t \in Trees : TaskRead(t)
    \/ \E t \in Trees : TaskUpdate(t)
    \/ \E t \in Trees : TaskRelease(t)
    \/ SharedJoin
    \/ SharedError
    \/ PredictWeightsStart
    \/ PredictWeightsStep
    \/ DivideByTrees

SpecForest == InitForest /\ [][NextForest]_vars

\* the contribution of tree t to the forest weights
TreeContribution(t) ==
    honest_weight_numpy_out(t, forest_apply, forest_apply_all, n_samples, n_est).tree_out

\* the forest weights of the sequential numpy_loop of fit
NumpyLoopForest ==
    MDivScalar(MSum([t \in Trees |-> TreeContribution(t)], NTrees,
                    Zeros(n_samples, n_est)), NTrees)

\* the number of trees in which the leaf of evaluation row i has an honest occupant
PopulatedTrees(i) ==
    Cardinality({t \in Trees : \E j \in 1..n_est :
                    forest_apply[j][t] = forest_apply_all[i][t]})

----------------------------------------------------------------------------
(* Assembly of the class probabilities from the cumulative probabilities.  *)

\* class_probs[class_probs < 0] = 0 left out
ClassProbsNoClip(p) ==
    [i \in 1..Len(p) |->
        LET probs_0 == <<Num(0)>> \o p[i]
            probs_1 == p[i] \o <<Num(1)>>
            diff == [k \in 1..Len(probs_1) |-> RSub(probs_1[k], probs_0[k])]
        IN  [k \in 1..Len(diff) |-> RDiv(diff[k], RSum(diff))]]

\* the division by the row sum left out
ClassProbsNoRenorm(p) ==
    [i \in 1..Len(p) |->
        LET probs_0 == <<Num(0)>> \o p[i]
            probs_1 == p[i] \o <<Num(1)>>
            diff == [k \in 1..Len(probs_1) |-> RSub(probs_1[k], probs_0[k])]
        IN  [k \in 1..Len(diff) |-> IF RLeq(Num(0), diff[k]) THEN diff[k] ELSE Num(0)]]

\* the column appended to probs_1 filled with zeros instead of ones
ClassProbsNoOnes(p) ==
    [i \in 1..Len(p) |->
        LET probs_0 == <<Num(0)>> \o p[i]
            probs_1 == p[i] \o <<Num(0)>>
            diff == [k \in 1..Len(probs_1) |-> RSub(probs_1[k], probs_0[k])]
            clipped == [k \in 1..Len(diff) |->
                           IF RLeq(Num(0), diff[k]) THEN diff[k] ELSE Num(0)]
        IN  [k \in 1..Len(clipped) |-> RDiv(clipped[k], RSum(clipped))]]

\* the first differences clipped at zero, with the column of ones left out of
\* probs_1 (the last difference is taken against 0)
ClippedDifferencesNoOnes(p) ==
    [i \in 1..Len(p) |->
        LET probs_0 == <<Num(0)>> \o p[i]
            probs_1 == p[i] \o <<Num(0)>>
            diff == [k \in 1..Len(probs_1) |-> RSub(probs_1[k], probs_0[k])]
        IN  [k \in 1..Len(diff) |-> IF RLeq(Num(0), diff[k]) THEN diff[k] ELSE Num(0)]]

\* class_probs = probs_1 - probs_0; class_probs[class_probs < 0] = 0
ClippedDifferences(p) ==
    [i \in 1..Len(p) |->
        LET probs_0 == <<Num(0)>> \o p[i]
            probs_1 == p[i] \o <<Num(1)>>
            diff == [k \in 1..Len(probs_1) |-> RSub(probs_1[k], probs_0[k])]
        IN  [k \in 1..Len(diff) |-> IF RLeq(Num(0), diff[k]) THEN diff[k] ELSE Num(0)]]

\* probs_0 = hstack(zeros, probs); probs_1 = hstack(probs, ones);
\* class_probs = probs_1 - probs_0; class_probs[class_probs < 0] = 0;
\* class_probs = class_probs / class_probs.sum(axis=1).reshape(-1, 1)
ClassProbs(p) ==
    [i \in 1..Len(p) |->
        LET clipped == ClippedDifferences(p)[i]
        IN  [k \in 1..Len(clipped) |-> RDiv(clipped[k], RSum(clipped))]]

ProbValues == {Frac(k, ProbDen) : k \in (0 - ProbMargin)..(ProbDen + ProbMargin)}

InitProb ==
    /\ pc = "start"
    /\ nclass \in 2..ProbMaxClass
    /\ probs \in [1..1 -> [1..(nclass - 1) -> ProbValues]]
    /\ class_probs = <<>>
    /\ forest_apply = <<>> /\ forest_apply_all = <<>>
    /\ tree_out = <<>> /\ leaf_size = <<>>
    /\ ForestIdle
    /\ OtherIdle("prob")

\* fit: the class probabilities of the fit sample
FitClassProbs ==
    /\ pc = "start"
    /\ class_probs' = ClassProbs(probs)
    /\ pc' = "fit_probs"
    /\ UNCHANGED <<treeVars, forestVars, varVars, marginVars, estimatorVars, nclass, probs>>

\* predict: the class probabilities of new data
PredictClassProbs ==
    /\ pc = "start"
    /\ class_probs' = ClassProbs(probs)
    /\ pc' = "predict_probs"
    /\ UNCHANGED <<treeVars, forestVars, varVars, marginVars, estimatorVars, nclass, probs>>

NextProb == FitClassProbs \/ PredictClassProbs

SpecProb == InitProb /\ [][NextProb]_vars

ProbsDone == pc \in {"fit_probs", "predict_probs"}

\* d_k = p_k - p_{k-1} with p_0 = 0 and p_K = 1, for row i
FirstDiff(i, k) ==
    RSub(IF k = nclass THEN Num(1) ELSE probs[i][k],
         IF k = 1 THEN Num(0) ELSE probs[i][k - 1])

RMax0(q) == IF q[1] > 0 THEN q ELSE Num(0)

Monotone01(i) ==
    \A k \in 1..nclass : RLeq(Num(0), FirstDiff(i, k))

\* C6: for every matrix of cumulative probabilities, non-monotonic rows
\* included, the class probabilities of fit and predict have no negative
\* entry and every row sums to 1.
C6_ClassProbsRowStochastic ==
    ProbsDone =>
        \A i \in 1..Len(probs) :
            /\ Len(class_probs[i]) = nclass
            /\ \A k \in 1..nclass : RLeq(Num(0), class_probs[i][k])
            /\ RSum(class_probs[i]) = Num(1)

C6_Witness ==
    /\ pc = "predict_probs"
    /\ nclass = 3
    /\ ~Monotone01(1)
    /\ \E k \in 1..nclass : class_probs[1][k] = Num(0)
    /\ RSum(class_probs[1]) = Num(1)

\* C7: the class probability of class k is max(d_k, 0) / sum_m max(d_m, 0);
\* a monotone row in [0,1] is returned as its plain first differences.
C7_ClipAndRenormalize ==
    ProbsDone =>
        \A i \in 1..Len(probs) :
            /\ \A k \in 1..nclass :
                class_probs[i][k] =
                    RDiv(RMax0(FirstDiff(i, k)),
                         RSum([m \in 1..nclass |-> RMax0(FirstDiff(i, m))]))
            /\ Monotone01(i) =>
                \A k \in 1..nclass : class_probs[i][k] = FirstDiff(i, k)
            /\ probs[i] = <<Frac(3, 10), Frac(9, 10)>> =>
                class_probs[i] = <<Frac(3, 10), Frac(6, 10), Frac(1, 10)>>

C7_Witness ==
    /\ pc = "fit_probs"
    /\ probs = << <<Frac(9, 10), Frac(3, 10)>> >>
    /\ class_probs = << <<Frac(9, 16), Num(0), Frac(7, 16)>> >>

\* the row sum the assembly divides row i by
ClippedRowSum(i) == RSum([m \in 1..nclass |-> RMax0(FirstDiff(i, m))])

\* C16: class-probability assembly fails only for a row whose clipped first
\* differences sum to exactly zero and never divides by a zero row sum; for
\* every other input it returns a result without error.  No row has a zero
\* sum, so every input yields a finite row of nclass probabilities.
C16_NoDivisionByZeroRowSum ==
    ProbsDone =>
        \A i \in 1..Len(probs) :
            /\ ClippedRowSum(i) = Num(0) => class_probs[i] = <<>>
            /\ ClippedRowSum(i) # Num(0) =>
                /\ Len(class_probs[i]) = nclass
                /\ \A k \in 1..nclass : ~IsNaN(class_probs[i][k])

C16_Witness ==
    /\ pc = "fit_probs"
    /\ probs[1][1] = Frac(ProbDen + 1, ProbDen)
    /\ RLeq(probs[1][nclass - 1], Num(0))
    /\ ClippedRowSum(1) # Num(0)
    /\ \A k \in 1..nclass : ~IsNaN(class_probs[1][k])

\* C27: for every row of cumulative probabilities, monotone or not, the
\* first differences clipped at zero sum to at least 1, so the row sum that fit,
\* predict and margin divide by is never zero and the division is defined.
C27_ClippedSumAtLeastOne ==
    ProbsDone =>
        \A i \in 1..Len(probs) :
            /\ RLeq(Num(1), RSum(ClippedDifferences(probs)[i]))
            /\ \A k \in 1..nclass :
                   /\ ~IsNaN(class_probs[i][k])
                   /\ RLeq(class_probs[i][k], ClippedDifferences(probs)[i][k])

C27_Witness ==
    /\ pc = "predict_probs"
    /\ probs = << <<Frac(9, 10), Frac(3, 10)>> >>
    /\ ~Monotone01(1)
    /\ RSum(ClippedDifferences(probs)[1]) = Frac(16, 10)
    /\ class_probs[1][1] = Frac(9, 16)

----------------------------------------------------------------------------
(* The analytic variance of the class probabilities.                       *)

\* Variants of the variance computation with one step changed: the partner
\* of cut-point k in the covariance is cut-point k - shift, the covariance is
\* multiplied by factor, and the mean is subtracted only when demean is set.
VarianceVariant(p, w, ob, nc, n, shift, factor, demean) ==
    IF n - 1 = 0
    THEN [err |-> "ZeroDivisionError", honest_variance |-> <<>>, final |-> <<>>]
    ELSE
    LET rows == 1..Len(p)
        cols == 1..Len(ob[1])
        scale == Frac(n, n - 1)
        d(k, i, j) ==
            IF k < 1 \/ k > nc - 1 THEN Num(0)
            ELSE RSub(RMul(w[k][i][j], Num(ob[k][j])),
                      IF demean THEN RDiv(p[i][k], Num(n)) ELSE Num(0))
        v(k, i) == RMul(RSum([j \in cols |-> RMul(d(k, i, j), d(k, i, j))]), scale)
        c(k, i) == RMul(RMul(RSum([j \in cols |-> RMul(d(k - shift, i, j), d(k, i, j))]),
                             Num(factor)), scale)
    IN  [err |-> "none",
         honest_variance |-> [k \in 1..(nc - 1) |-> [i \in rows |-> v(k, i)]],
         final |-> [i \in rows |-> [k \in 1..nc |->
                       RSub(RAdd(v(k, i), v(k - 1, i)), c(k, i))]]]

\* the covariance taken with the cut-point itself instead of its predecessor
honest_variance_noshift(p, w, ob, nc, n) == VarianceVariant(p, w, ob, nc, n, 0, 2, TRUE)

\* the covariance subtracted once instead of twice
honest_variance_cov_once(p, w, ob, nc, n) == VarianceVariant(p, w, ob, nc, n, 1, 1, TRUE)

\* the products of weights and outcomes not de-meaned
honest_variance_nodemean(p, w, ob, nc, n) == VarianceVariant(p, w, ob, nc, n, 1, 2, FALSE)

\* n_est/(n_est-1) evaluated as a numpy division: a non-finite factor and a
\* matrix of non-finite entries instead of an exception
honest_variance_nan(p, w, ob, nc, n) ==
    IF n - 1 = 0
    THEN [err |-> "none",
          honest_variance |-> [k \in 1..(nc - 1) |-> [i \in 1..Len(p) |-> NaN]],
          final |-> [i \in 1..Len(p) |-> [k \in 1..nc |-> NaN]]]
    ELSE VarianceVariant(p, w, ob, nc, n, 1, 2, TRUE)

\* honest_variance(probs, weights, outcome_binary, nclass, n_est); p is
\* rows x (nc-1), w[k] is rows x columns, ob[k] has one entry per column
honest_variance(p, w, ob, nc, n) ==
    IF n - 1 = 0
    THEN [err |-> "ZeroDivisionError", honest_variance |-> <<>>, final |-> <<>>]
    ELSE
    LET rows == 1..Len(p)
        cols == 1..Len(ob[1])
        scale == Frac(n, n - 1)
        honest_multi_demeaned ==
            [k \in 1..(nc - 1) |-> [i \in rows |-> [j \in cols |->
                RSub(RMul(w[k][i][j], Num(ob[k][j])), RDiv(p[i][k], Num(n)))]]]
        hv == [k \in 1..(nc - 1) |-> [i \in rows |->
                  RMul(RSum([j \in cols |-> RMul(honest_multi_demeaned[k][i][j],
                                                 honest_multi_demeaned[k][i][j])]),
                       scale)]]
        zeros_m == [i \in rows |-> [j \in cols |-> Num(0)]]
        zeros_v == [i \in rows |-> Num(0)]
        \* the dictionary itself with the key nclass added / the keys shifted by one
        honest_multi_demeaned_0_last ==
            [k \in 1..nc |-> IF k = nc THEN zeros_m ELSE honest_multi_demeaned[k]]
        honest_multi_demeaned_0_first ==
            [k \in 1..nc |-> IF k = 1 THEN zeros_m ELSE honest_multi_demeaned[k - 1]]
        honest_covariance ==
            [k \in 1..nc |-> [i \in rows |->
                RMul(RMul(RSum([j \in cols |->
                               RMul(honest_multi_demeaned_0_first[k][i][j],
                                    honest_multi_demeaned_0_last[k][i][j])]),
                          Num(2)), scale)]]
        honest_variance_last == [k \in 1..nc |-> IF k = nc THEN zeros_v ELSE hv[k]]
        honest_variance_first == [k \in 1..nc |-> IF k = 1 THEN zeros_v ELSE hv[k - 1]]
    IN  [err |-> "none",
         honest_variance |-> hv,
         final |-> [i \in rows |-> [k \in 1..nc |->
                       RSub(RAdd(honest_variance_last[k][i], honest_variance_first[k][i]),
                            honest_covariance[k][i])]]]

\* the weight entries and the honest sample sizes (the numbers of weight
\* columns) of the variance specification
WeightValues == {Num(0), Frac(1, 2)}
VarHonest == {1, 2}

\* outcome_binary_est[class_idx] = (y_est <= class_idx) * 1
OutcomeBinary(y_est, nc) ==
    [k \in 1..(nc - 1) |-> [j \in 1..Len(y_est) |-> IF y_est[j] <= k THEN 1 ELSE 0]]

\* predictions = np.dot(forest_out, outcome_ind_est), one column per cut-point
WeightPredictions(w, ob, nc) ==
    [i \in 1..Len(w[1]) |-> [k \in 1..(nc - 1) |->
        RSum([j \in 1..Len(ob[k]) |-> RMul(w[k][i][j], Num(ob[k][j]))])]]

InitVar ==
    /\ pc = "start"
    /\ nclass \in 2..VarMaxClass
    /\ \E h \in VarHonest :
        /\ weights \in [1..(nclass - 1) -> [1..1 -> [1..h -> WeightValues]]]
        /\ \E y_est \in [1..h -> 1..nclass] :
            outcome_binary_est = OutcomeBinary(y_est, nclass)
    /\ probs = WeightPredictions(weights, outcome_binary_est, nclass)
    /\ class_probs = <<>>
    /\ var_n = 0 /\ cut_variance = <<>> /\ variance = <<>>
    /\ forest_apply = <<>> /\ forest_apply_all = <<>>
    /\ tree_out = <<>> /\ leaf_size = <<>>
    /\ ForestIdle
    /\ MarginIdle
    /\ EstimatorIdle

VarianceCall(n, done) ==
    /\ pc = "start"
    /\ LET r == honest_variance(probs, weights, outcome_binary_est, nclass, n)
       IN  /\ cut_variance' = r.honest_variance
           /\ variance' = r.final
           /\ pc' = IF r.err = "none" THEN done ELSE "var_error"
    /\ var_n' = n
    /\ UNCHANGED <<treeVars, forestVars, probVars, marginVars, estimatorVars, weights, outcome_binary_est>>

\* fit: the variance of the honest rows, n_est = n_est
FitVarianceHonest == VarianceCall(Len(outcome_binary_est[1]), "var_honest")

\* fit: the variance of the training rows, n_est = n_tr = len(ind_tr)
FitVarianceTrain == \E n_tr \in 1..VarMaxTr : VarianceCall(n_tr, "var_train")

\* predict on new data, n_est = len(self.forest['ind_est'])
PredictVariance == VarianceCall(Len(outcome_binary_est[1]), "var_predict")

NextVar == FitVarianceHonest \/ FitVarianceTrain \/ PredictVariance

SpecVar == InitVar /\ [][NextVar]_vars

VarDone == pc \in {"var_honest", "var_train", "var_predict"}

\* the honest-sample size: the number of columns of W
HonestSize == Len(outcome_binary_est[1])

\* W[i,j]*y[j] - p[i]/n for cut-point k, zero for the boundary cut-points
Demeaned(i, k, j, n) ==
    IF k < 1 \/ k > nclass - 1 THEN Num(0)
    ELSE RSub(RMul(weights[k][i][j], Num(outcome_binary_est[k][j])),
              RDiv(probs[i][k], Num(n)))

\* (n/(n-1)) * sum_j Demeaned(k1) * Demeaned(k2)
Cov(i, k1, k2, n) ==
    RMul(Frac(n, n - 1),
         RSum([j \in 1..HonestSize |-> RMul(Demeaned(i, k1, j, n), Demeaned(i, k2, j, n))]))

\* the variance of cut-point k as honest_variance computed it, zero at the boundaries
CutVar(i, k) == IF k < 1 \/ k > nclass - 1 THEN Num(0) ELSE cut_variance[k][i]

----------------------------------------------------------------------------
\* C8: for every weight matrix, 0/1 outcome vectors and n > 1, all entries of
\* the variance matrix returned by honest_variance are >= 0.
C8_VarianceNonNegative ==
    (pc \in {"var_honest", "var_train", "var_predict", "var_error"} /\ var_n > 1) =>
        /\ pc # "var_error"
        /\ \A i \in 1..Len(variance) : \A k \in 1..nclass :
            RLeq(Num(0), variance[i][k])

C8_Witness ==
    /\ VarDone /\ var_n > 1 /\ nclass = 3
    /\ \E k \in 1..nclass : variance[1][k] # Num(0)
    /\ \A k \in 1..nclass : RLeq(Num(0), variance[1][k])

\* C9: the variance of class k is Var(cum_k) + Var(cum_{k-1})
\* - 2*Cov(cum_{k-1}, cum_k) with the boundary cut-points 0 and nclass
\* taken as exactly zero; the first class has Var(cum_1) alone and the last
\* class Var(cum_{nclass-1}) alone.
C9_VarianceIdentity ==
    VarDone =>
        \A i \in 1..Len(variance) :
            /\ Len(variance[i]) = nclass
            /\ \A k \in 1..nclass :
                variance[i][k] =
                    RSub(RAdd(CutVar(i, k), CutVar(i, k - 1)),
                         RMul(Num(2), Cov(i, k - 1, k, var_n)))
            /\ variance[i][1] = cut_variance[1][i]
            /\ variance[i][nclass] = cut_variance[nclass - 1][i]

C9_Witness ==
    /\ VarDone /\ nclass = 3
    /\ Cov(1, 1, 2, var_n) # Num(0)
    /\ variance[1][2] # RAdd(CutVar(1, 2), CutVar(1, 1))

\* C17: when the sample size n passed to the variance estimator is 1, so
\* that n - 1 is zero, honest_variance surfaces an error to the caller and
\* returns no variance matrix, for the honest and the training subset in fit
\* and in predict; for n > 1 it returns a matrix.
C17_SizeOneRaises ==
    pc # "start" =>
        /\ var_n = 1 => pc = "var_error" /\ variance = <<>> /\ cut_variance = <<>>
        /\ var_n > 1 => VarDone /\ Len(variance) = Len(probs)

C17_Witness ==
    /\ pc = "var_error"
    /\ var_n = 1
    /\ HonestSize = 1
    /\ variance = <<>>

\* C10 as stated: in every call the per-cut-point variance of row i is
\* (n/(n-1)) * sum_j (W[i,j]*y[j] - p[i]/n)^2 with n the honest-sample size.
C10_VarianceUsesHonestSize ==
    VarDone =>
        \A i \in 1..Len(variance) : \A k \in 1..(nclass - 1) :
            cut_variance[k][i] = Cov(i, k, k, HonestSize)

\* C10 amended: ... with n the n_est argument of the call: the honest-sample
\* size for the honest subset in fit and in predict, the training-subset size
\* n_tr for the training subset in fit.
C10_VarianceUsesPassedN ==
    VarDone =>
        /\ pc \in {"var_honest", "var_predict"} => var_n = HonestSize
        /\ \A i \in 1..Len(variance) : \A k \in 1..(nclass - 1) :
            cut_variance[k][i] = Cov(i, k, k, var_n)

C10_Witness ==
    /\ pc = "var_train"
    /\ var_n # HonestSize
    /\ \E k \in 1..(nclass - 1) :
        /\ cut_variance[k][1] = Cov(1, k, k, var_n)
        /\ cut_variance[k][1] # Cov(1, k, k, HonestSize)

----------------------------------------------------------------------------
----------------------------------------------------------------------------
(* fit with honesty and inference: the weights of all observations in the  *)
(* original row order and the variance assembled from the honest and the   *)
(* training subset.                                                        *)

\* the honest sample with its outcomes, the tree count, the training sample
\* sizes and the leaf ids of this specification
OrderShape == [n_est |-> 2, y_est |-> <<1, 2>>, n_trees |-> 1, nclass |-> 2]
OrderTrainSizes == {1, 2, 3}
OrderLeaves == {0, 1}

\* np.vstack((A, B))
VStack(A, B) == A \o B

\* fit, weight_method numpy_loop: the weight matrix of one forest
NumpyLoopWeights(fa, fa_all) ==
    LET trees == 1..Len(fa[1])
        outs == [t \in trees |->
                    TreeWeights(Column(fa, t), Column(fa_all, t), Len(fa_all), Len(fa)).tree_out]
    IN  MDivScalar(MSum(outs, Len(fa[1]), Zeros(Len(fa_all), Len(fa))), Len(fa[1]))

\* the honest rows stacked under the training rows and the sort left out
FitVarianceNoSort(p, w, ob, nc, i_est, i_tr) ==
    LET vh == honest_variance(Rows(p, i_est), [k \in 1..(nc - 1) |-> Rows(w[k], i_est)],
                              ob, nc, Len(i_est))
        vt == honest_variance(Rows(p, i_tr), [k \in 1..(nc - 1) |-> Rows(w[k], i_tr)],
                              ob, nc, Len(i_tr))
    IN  IF vh.err # "none" THEN [err |-> vh.err, variance |-> <<>>]
        ELSE IF vt.err # "none" THEN [err |-> vt.err, variance |-> <<>>]
        ELSE [err |-> "none", variance |-> VStack(vh.final, vt.final)]

\* fit, inference: variance_honest and variance_train stacked and sorted
\* according to the indices in ind_all
FitVariance(p, w, ob, nc, i_est, i_tr) ==
    LET probs_honest == Rows(p, i_est)
        weights_honest == [k \in 1..(nc - 1) |-> Rows(w[k], i_est)]
        variance_honest == honest_variance(probs_honest, weights_honest, ob, nc, Len(i_est))
        n_tr == Len(i_tr)
        probs_train == Rows(p, i_tr)
        weights_train == [k \in 1..(nc - 1) |-> Rows(w[k], i_tr)]
        variance_train == honest_variance(probs_train, weights_train, ob, nc, n_tr)
        ind_all == i_est \o i_tr
    IN  IF variance_honest.err # "none" THEN [err |-> variance_honest.err, variance |-> <<>>]
        ELSE IF variance_train.err # "none"
        THEN [err |-> variance_train.err, variance |-> <<>>]
        ELSE [err |-> "none",
              variance |-> Rows(VStack(variance_honest.final, variance_train.final),
                                Argsort(ind_all))]

InitOrder ==
    /\ pc = "start"
    /\ call = "fit"
    /\ weight_method = "numpy_loop"
    /\ nclass = OrderShape.nclass
    /\ forest_apply \in LeafMatrices(OrderShape.n_est, OrderShape.n_trees, OrderLeaves)
    /\ \E n_tr \in OrderTrainSizes :
        /\ forest_apply_tr \in LeafMatrices(n_tr, OrderShape.n_trees, OrderLeaves)
        /\ \E sp \in Splits(n_tr, OrderShape.n_est) : ind_tr = sp.tr /\ ind_est = sp.est
    /\ outcome_binary_est = OutcomeBinary(OrderShape.y_est, nclass)
    /\ forest_apply_all = <<>>
    /\ tree_out = <<>> /\ leaf_size = <<>>
    /\ forest_out = <<>> /\ trees_out = <<>>
    /\ tree = 0 /\ task = <<>> /\ lock = 0
    /\ buffer_init = <<>> /\ buffer_read = <<>>
    /\ probs = <<>> /\ class_probs = <<>>
    /\ weights = <<>>
    /\ var_n = 0 /\ cut_variance = <<>> /\ variance = <<>>
    /\ MarginIdle
    /\ EstimatorIdle

\* fit, weight_method numpy_loop: the weights of the forest of each cut-point
\* and its predictions
FitOrderWeights ==
    /\ pc = "weights"
    /\ forest_out' = NumpyLoopWeights(forest_apply, forest_apply_all)
    /\ weights' = [k \in 1..(nclass - 1) |-> forest_out']
    /\ probs' = WeightPredictions(weights', outcome_binary_est, nclass)
    /\ pc' = "order_weights"
    /\ UNCHANGED <<treeVars, call, weight_method, buffer_init, buffer_read, forest_apply_tr,
                   ind_est, ind_tr, trees_out, tree, task, lock, nclass, class_probs,
                   outcome_binary_est, var_n, cut_variance, variance, marginVars,
                   estimatorVars>>

\* fit: the variance of the predictions, in the original row order
FitOrderVariance ==
    /\ pc = "order_weights"
    /\ LET r == FitVariance(probs, weights, outcome_binary_est, nclass, ind_est, ind_tr)
       IN  /\ variance' = r.variance
           /\ pc' = IF r.err = "none" THEN "order_done" ELSE "var_error"
    /\ UNCHANGED <<treeVars, forestVars, probVars, marginVars, estimatorVars, weights, outcome_binary_est,
                   var_n, cut_variance>>

NextOrder == FitApplyAll \/ FitOrderWeights \/ FitOrderVariance

SpecOrder == InitOrder /\ [][NextOrder]_vars

\* the leaf ids of original observation i
LeafOf(i) ==
    IF \E r \in 1..Len(ind_est) : ind_est[r] = i
    THEN forest_apply[CHOOSE r \in 1..Len(ind_est) : ind_est[r] = i]
    ELSE forest_apply_tr[CHOOSE r \in 1..Len(ind_tr) : ind_tr[r] = i]

\* the weight of honest observation j for original observation i (one tree)
WeightOf(i, j) ==
    IF forest_apply[j][1] = LeafOf(i)[1] THEN Frac(1, HonestCount(LeafOf(i)[1])) ELSE Num(0)

\* the variance of original observation i, computed from its own subset
VarianceOf(i) ==
    LET w == [k \in 1..(nclass - 1) |-> << [j \in 1..Len(forest_apply) |-> WeightOf(i, j)] >>]
        p == WeightPredictions(w, outcome_binary_est, nclass)
        n == IF i \in Range(ind_est) THEN Len(ind_est) ELSE Len(ind_tr)
    IN  honest_variance(p, w, outcome_binary_est, nclass, n).final[1]

\* C11: after fit with honesty and inference row i of the variance matrix is
\* the variance of original observation i, computed from the honest subset
\* when i is in ind_est and from the training subset when i is in ind_tr,
\* for every partition in every order.
C11_VarianceInOriginalOrder ==
    pc = "order_done" =>
        /\ Len(variance) = Len(ind_est) + Len(ind_tr)
        /\ \A i \in 1..Len(variance) : variance[i] = VarianceOf(i)

C11_Witness ==
    /\ pc = "order_done"
    /\ ind_est = <<4, 2>>
    /\ ind_tr = <<5, 1, 3>>
    /\ forest_apply[1] = forest_apply_tr[1]
    /\ variance[4] # variance[2]
    /\ variance[4] # variance[5]
    /\ \A i \in 1..5 : variance[i] = VarianceOf(i)

----------------------------------------------------------------------------
(* The shared accumulator of forest_weights_multi / forest_weights_mpire.  *)

\* the tasks between _lock.acquire() and _lock.release()
InCritical == {t \in DOMAIN task : task[t] \in {"locked", "read", "updated"}}

\* the tasks that have read the buffer and not yet written their sum
InAddition == {t \in DOMAIN task : task[t] = "read"}

\* C12: in the shared-accumulator strategies at most one worker at a time is
\* between reading and writing the shared buffer; no two workers execute
\* '_shared_buffer += tree_out' concurrently.
C12_OneWorkerUpdatesBuffer ==
    /\ Cardinality(InCritical) <= 1
    /\ Cardinality(InAddition) <= 1
    /\ \A t \in InCritical : lock = t

C12_Witness ==
    /\ pc = "shared"
    /\ \E t, u \in Trees : task[t] = "read" /\ task[u] = "computed" /\ lock = t

\* C13: in the shared-accumulator strategies, for every interleaving and
\* every order of the trees, once all tasks have finished the amount added
\* to the shared buffer is the sum of the contributions of all trees, each
\* added exactly once.
C13_NoLostUpdate ==
    (weight_method \in SharedMethods /\ pc \in {"shared", "summed"}
        /\ \A t \in Trees : task[t] = "done") =>
        forest_out = MSum([t \in Trees |-> TreeContribution(t)], NTrees, buffer_init)

C13_Witness ==
    /\ pc = "summed"
    /\ weight_method \in SharedMethods
    /\ \A t \in Trees : TreeContribution(t) # Zeros(n_samples, n_est)
    /\ forest_out # buffer_init
    /\ forest_out = MSum([t \in Trees |-> TreeContribution(t)], NTrees, buffer_init)

\* C14: in tree_weights a worker computes its tree's contribution before it
\* acquires the lock and holds the lock only for the addition into the
\* shared buffer; no worker is in its per-tree computation while holding
\* the lock.
C14_LockOnlyAroundAddition ==
    \A t \in DOMAIN task :
        /\ task[t] \in {"pending", "computing", "computed", "raised", "done"} => lock # t
        /\ lock = t => task[t] \in {"locked", "read", "updated"}

C14_Witness ==
    /\ pc = "shared"
    /\ \E t, u \in Trees : task[t] = "computing" /\ task[u] = "read" /\ lock = u

\* C15: if a per-tree task raises during a parallel aggregation the
\* aggregation ends with the error propagated to the caller of fit; no
\* weight matrix built from a partial sum of trees is returned or stored.
C15_NoPartialResult ==
    /\ (\E t \in DOMAIN task : task[t] = "raised") => pc \in {"map", "shared", "error"}
    /\ pc = "error" => forest_out = <<>> /\ \E t \in Trees : task[t] = "raised"
    /\ pc \in {"summed", "done"} => \A t \in DOMAIN task : task[t] = "done"

C15_Witness ==
    /\ pc = "error"
    /\ weight_method \in SharedMethods
    /\ \E t, u \in Trees : task[t] = "raised" /\ task[u] = "done"

C26_LockReleasedAndFinished ==
    /\ (weight_method \in SharedMethods /\ pc \in {"summed", "done"}) =>
           /\ \A t \in Trees : task[t] = "done"
           /\ lock = 0
    /\ (weight_method \in SharedMethods /\ pc = "error") => lock = 0

----------------------------------------------------------------------------
(* margin: the marginal effects of the covariates.                         *)

MarginShift == 1     \* new evaluation data lies up to MarginShift ranges off

\* a covariate with more than 2 and at most CategoricalMax distinct values
\* is categorical
CategoricalMax == 10

\* numpy comparisons: False for a non-finite operand
REq(a, b) == ~IsNaN(a) /\ ~IsNaN(b) /\ a = b
RLt(a, b) == RLeq(a, b) /\ a # b

\* np.ceil
RCeil(q) == IF IsNaN(q) THEN NaN ELSE Num(0 - ((0 - q[1]) \div q[2]))

\* np.max / np.min / np.mean of a vector
RMaxOf(v) == CHOOSE x \in Range(v) : \A y \in Range(v) : RLeq(y, x)
RMinOf(v) == CHOOSE x \in Range(v) : \A y \in Range(v) : RLeq(x, y)
RMean(v) == RDiv(RSum(v), Num(Len(v)))

\* np.sort of a vector
RECURSIVE RSort(_)
RSort(v) ==
    IF v = <<>> THEN <<>>
    ELSE LET m == RMinOf(v)
             at == CHOOSE i \in 1..Len(v) : v[i] = m /\ \A j \in 1..(i - 1) : v[j] # m
         IN  <<m>> \o RSort(SubSeq(v, 1, at - 1) \o SubSeq(v, at + 1, Len(v)))

\* np.median
RMedian(v) ==
    LET s == RSort(v)
        n == Len(v)
    IN  IF n % 2 = 1 THEN s[(n + 1) \div 2]
        ELSE RDiv(RAdd(s[n \div 2], s[n \div 2 + 1]), Num(2))

\* the square root of a rational that is the square of a rational
RSqrt(q) ==
    <<CHOOSE r \in 0..q[1] : r * r = q[1], CHOOSE r \in 1..q[2] : r * r = q[2]>>

\* np.std(v, ddof=1)
Std(v) ==
    LET m == RMean(v)
        ss == RSum([i \in 1..Len(v) |-> RMul(RSub(v[i], m), RSub(v[i], m))])
        var == RDiv(ss, Num(Len(v) - 1))
    IN  IF IsNaN(var) THEN NaN ELSE RSqrt(var)

\* (X_eval_sort[1:,:] != X_eval_sort[:-1,:]).sum(axis=0) + 1
NUnique(X) ==
    [c \in 1..NCols(X) |->
        LET s == RSort(Column(X, c))
        IN  Cardinality({i \in 1..(Len(s) - 1) : s[i + 1] # s[i]}) + 1]

XDummy(nu) == {c \in 1..Len(nu) : nu[c] = 2}
XCategorical(nu) == {c \in 1..Len(nu) : nu[c] > 2 /\ nu[c] <= CategoricalMax}
XContinuous(nu) == {c \in 1..Len(nu) : nu[c] > CategoricalMax}

\* the evaluation point(s) X_mean
XMean(X, point) ==
    IF point = "atmean" THEN << [c \in 1..NCols(X) |-> RMean(Column(X, c))] >>
    ELSE IF point = "atmedian" THEN << [c \in 1..NCols(X) |-> RMedian(Column(X, c))] >>
    ELSE X

\* (c1) * a + (c2) * b on numpy booleans
Pick(c1, a, c2, b) ==
    RAdd(RMul(Num(IF c1 THEN 1 ELSE 0), a), RMul(Num(IF c2 THEN 1 ELSE 0), b))

\* one entry of X_up and X_down: mean +- h_std * sd, kept in the support
\* [mn, mx] of X_est
UpDownInSupport(m, hs, mx, mn) ==
    LET up0 == RAdd(m, hs)
        down0 == RSub(m, hs)
        up1 == Pick(RLt(up0, mx), up0, RLeq(mx, up0), mx)
        down1 == Pick(RLt(mn, down0), down0, RLeq(down0, mn), mn)
    IN  [up |-> Pick(RLt(mn, up1), up1, RLeq(up1, mn), RAdd(mn, hs)),
         down |-> Pick(RLt(down1, mx), down1, RLeq(mx, down1), RSub(mx, hs))]

\* one entry of X_up and X_down after the gap was widened by half a step
\* where they coincide and the support was applied again
UpDownWidened(u, d, hs, mx, mn) ==
    LET half == RMul(Frac(1, 2), hs)
        up3 == Pick(RLt(d, u), u, REq(u, d), RAdd(u, half))
        down3 == Pick(RLt(d, up3), d, REq(up3, d), RSub(d, half))
    IN  [up |-> Pick(RLt(up3, mx), up3, RLeq(mx, up3), mx),
         down |-> Pick(RLt(mn, down3), down3, RLeq(down3, mn), mn)]

\* per covariate: the step h_std * X_sd and the support of X_est
ColumnStats(Xe, h) ==
    [c \in 1..NCols(Xe) |-> [hs |-> RMul(h, Std(Column(Xe, c))),
                             mx |-> RMaxOf(Column(Xe, c)),
                             mn |-> RMinOf(Column(Xe, c))]]

\* X_up and X_down kept in the support, entry by entry
InSupport(Xm, st) ==
    [i \in 1..Len(Xm) |-> [c \in 1..NCols(Xm) |->
        UpDownInSupport(Xm[i][c], st[c].hs, st[c].mx, st[c].mn)]]

\* if any entry of X_up equals its entry of X_down, every entry is widened
Widened(in, st) ==
    IF \E i \in 1..Len(in) : \E c \in 1..Len(in[i]) : REq(in[i][c].up, in[i][c].down)
    THEN [i \in 1..Len(in) |-> [c \in 1..Len(in[i]) |->
             UpDownWidened(in[i][c].up, in[i][c].down, st[c].hs, st[c].mx, st[c].mn)]]
    ELSE in

\* X_up with np.ceil left out for the categorical covariates
AdjustedUpNoCeil(out, Xev, nu) ==
    [i \in 1..Len(out) |-> [c \in 1..Len(out[i]) |->
        IF c \in XDummy(nu) THEN RMaxOf(Column(Xev, c)) ELSE out[i][c].up]]

\* X_up with the adjustments for dummies and categorical covariates
AdjustedUp(out, Xev, nu) ==
    [i \in 1..Len(out) |-> [c \in 1..Len(out[i]) |->
        IF c \in XDummy(nu) THEN RMaxOf(Column(Xev, c))
        ELSE IF c \in XCategorical(nu) THEN RCeil(out[i][c].up)
        ELSE out[i][c].up]]

\* X_down with the adjustments for dummies and categorical covariates
AdjustedDown(out, up, Xev, nu) ==
    [i \in 1..Len(out) |-> [c \in 1..Len(out[i]) |->
        IF c \in XDummy(nu) THEN RMinOf(Column(Xev, c))
        ELSE IF c \in XCategorical(nu) THEN RSub(up[i][c], Num(1))
        ELSE out[i][c].down]]

\* X_eval.copy() with column x_id replaced by the up (down) values; one row
\* of evaluation points is broadcast over all rows
XShifted(Xev, Xs, x_id) ==
    [i \in 1..Len(Xev) |-> [c \in 1..NCols(Xev) |->
        IF c = x_id THEN Xs[IF Len(Xs) = 1 THEN 1 ELSE i][c] ELSE Xev[i][c]]]

\* the cut-point predictions of the fitted forests for one row of covariates
\* (predict_default, predict_leafmeans and predict_weights): a split of
\* covariate fs.column at fs.threshold with the predictions of the two sides
ForestPredict(fs, row) ==
    IF RLeq(row[fs.column], fs.threshold) THEN fs.left ELSE fs.right

\* np.mean(self.predict_...(X, n_samples), axis=0)
MeanPrediction(fs, X, nc) ==
    [k \in 1..(nc - 1) |-> RMean([i \in 1..Len(X) |-> ForestPredict(fs, X[i])[k]])]

\* scaling_factor: the mean of X_up - X_down, 1 for dummies and categoricals
ScalingFactor(up, down, nu) ==
    [c \in 1..NCols(up) |->
        IF c \in XDummy(nu) \/ c \in XCategorical(nu) THEN Num(1)
        ELSE RMean([i \in 1..Len(up) |-> RSub(up[i][c], down[i][c])])]

\* forest_pred_up / forest_pred_down differenced, clipped and normalised,
\* their difference divided by the scaling factor
MarginalEffects(pred_up, pred_down, up, down, nu) ==
    LET cp_up == ClassProbs(pred_up)
        cp_down == ClassProbs(pred_down)
        scaling_factor == ScalingFactor(up, down, nu)
    IN  [c \in 1..Len(pred_up) |-> [k \in 1..Len(cp_up[c]) |->
            RDiv(RSub(cp_up[c][k], cp_down[c][k]), scaling_factor[c])]]

\* the samples of the margin specification, as one covariate column each
Cont11 == <<0, 1, 2, 3, 6, 7, 9, 10, 12, 13, 14>>
AsMatrix(col, shift) == [i \in 1..Len(col) |-> <<Num(col[i] + shift)>>]
\* a sample with a binary and a categorical covariate
TwoCovariates ==
    <<<<Num(0), Num(0)>>, <<Num(0), Num(0)>>, <<Num(0), Num(2)>>, <<Num(1), Num(3)>>>>
EstSamples ==
    {AsMatrix(<<5, 5, 5>>, 0), AsMatrix(<<4, 5, 6>>, 0), AsMatrix(<<0, 0, 0, 1>>, 0),
     AsMatrix(Cont11, 0), TwoCovariates}
NewSamples ==
    {AsMatrix(Cont11, 15 * k) : k \in 1..MarginShift} \cup {AsMatrix(<<4, 6, 4, 6>>, 0)}
MarginWindows == {Frac(1, 10), Num(1)}
LeafPredictions == {<<Num(0), Num(1)>>, <<Num(1), Num(0)>>, <<Frac(1, 2), Frac(1, 2)>>}
MarginForests ==
    [column : {1, 2}, threshold : {Num(2), Num(5), Num(7)}, left : LeafPredictions,
     right : LeafPredictions]

InitMargin ==
    /\ pc = "start"
    /\ nclass = 3
    /\ X_est \in EstSamples
    /\ fitted = <<>>
    /\ EstimatorIdle
    /\ forests \in {f \in MarginForests : f.column <= NCols(X_est)}
    /\ X_eval \in {X \in EstSamples \cup NewSamples : NCols(X) = NCols(X_est)}
    /\ eval_point \in {"mean", "atmean", "atmedian"}
    /\ window \in MarginWindows
    /\ n_unique = <<>>
    /\ X_up = <<>> /\ X_down = <<>>
    /\ forest_pred_up = <<>> /\ forest_pred_down = <<>>
    /\ margins = <<>>
    /\ probs = <<>> /\ class_probs = <<>>
    /\ VarIdle
    /\ forest_apply = <<>> /\ forest_apply_all = <<>>
    /\ tree_out = <<>> /\ leaf_size = <<>>
    /\ ForestIdle

\* the constant-covariate test with n_unique < 1 in place of n_unique <= 1
MarginCheckBelowOne ==
    /\ pc = "start"
    /\ n_unique' = NUnique(X_eval)
    /\ pc' = IF \E c \in 1..Len(n_unique') : n_unique'[c] < 1
             THEN "margin_error" ELSE "margin_checked"
    /\ UNCHANGED <<treeVars, forestVars, probVars, varVars, estimatorVars, fittedVars, X_eval,
                   eval_point,
                   window, X_up, X_down, forest_pred_up, forest_pred_down, margins>>

\* margin: the covariates are classified; a constant covariate is an error
MarginCheck ==
    /\ pc = "start"
    /\ n_unique' = NUnique(X_eval)
    /\ pc' = IF \E c \in 1..Len(n_unique') : n_unique'[c] <= 1
             THEN "margin_error" ELSE "margin_checked"
    /\ UNCHANGED <<treeVars, forestVars, probVars, varVars, estimatorVars, fittedVars, X_eval,
                   eval_point,
                   window, X_up, X_down, forest_pred_up, forest_pred_down, margins>>

\* margin: the evaluation points and their up and down values
MarginUpDown ==
    /\ pc = "margin_checked"
    /\ \E X_mean \in {XMean(X_eval, eval_point)} :
       \E st \in {ColumnStats(X_est, window)} :
       \E in \in {InSupport(X_mean, st)} :
       \E out \in {Widened(in, st)} :
          /\ X_up' = AdjustedUp(out, X_eval, n_unique)
          /\ X_down' = AdjustedDown(out, X_up', X_eval, n_unique)
    /\ pc' = "margin_updown"
    /\ UNCHANGED <<treeVars, forestVars, probVars, varVars, estimatorVars, fittedVars, X_eval,
                   eval_point,
                   window, n_unique, forest_pred_up, forest_pred_down, margins>>

\* margin with the shifted columns written into X_eval itself and not a copy
MarginPredictInPlace ==
    /\ pc = "margin_updown"
    /\ forest_pred_up' = [x_id \in 1..NCols(X_eval) |->
           MeanPrediction(forests, XShifted(X_eval, X_up, x_id), nclass)]
    /\ forest_pred_down' = [x_id \in 1..NCols(X_eval) |->
           MeanPrediction(forests, XShifted(X_eval, X_down, x_id), nclass)]
    /\ X_est' = IF X_eval = X_est THEN XShifted(X_eval, X_down, NCols(X_eval)) ELSE X_est
    /\ pc' = "margin_predicted"
    /\ UNCHANGED <<treeVars, forestVars, probVars, varVars, estimatorVars, forests, fitted,
                   X_eval, eval_point, window, n_unique, X_up, X_down, margins>>

\* margin: the mean predictions for the up- and the down-shifted matrices
MarginPredict ==
    /\ pc = "margin_updown"
    /\ forest_pred_up' = [x_id \in 1..NCols(X_eval) |->
           MeanPrediction(forests, XShifted(X_eval, X_up, x_id), nclass)]
    /\ forest_pred_down' = [x_id \in 1..NCols(X_eval) |->
           MeanPrediction(forests, XShifted(X_eval, X_down, x_id), nclass)]
    /\ pc' = "margin_predicted"
    /\ UNCHANGED <<treeVars, forestVars, probVars, varVars, estimatorVars, fittedVars, X_eval,
                   eval_point,
                   window, n_unique, X_up, X_down, margins>>

\* margin: the marginal effects
MarginEffects ==
    /\ pc = "margin_predicted"
    /\ margins' = MarginalEffects(forest_pred_up, forest_pred_down, X_up, X_down, n_unique)
    /\ pc' = "margin_done"
    /\ UNCHANGED <<treeVars, forestVars, probVars, varVars, estimatorVars, fittedVars, X_eval,
                   eval_point,
                   window, n_unique, X_up, X_down, forest_pred_up, forest_pred_down>>

NextMargin == MarginCheck \/ MarginUpDown \/ MarginPredict \/ MarginEffects

SpecMargin == InitMargin /\ [][NextMargin]_vars

-----------------------------------------------------------------------------
(* Claims about margin.                                                    *)

\* covariate c of the evaluation data has a single distinct value
ConstantColumn(X, c) == \A i, j \in 1..Len(X) : X[i][c] = X[j][c]

\* nothing of the up/down values, the predictions or the effects is computed
NothingComputed(up, down, pred_up, pred_down, m) ==
    up = <<>> /\ down = <<>> /\ pred_up = <<>> /\ pred_down = <<>> /\ m = <<>>

\* C18: when margin is called on evaluation data in which some covariate has a
\* single distinct value, its first step raises the error: no up/down value,
\* prediction or effect has been computed, none is computed afterwards, and
\* the fitted forests and the honest sample are unchanged.
C18_ConstantCovariateRaisesFirst ==
    [][/\ (pc = "start" /\ \E c \in 1..NCols(X_eval) : ConstantColumn(X_eval, c))
           => /\ pc' = "margin_error"
              /\ NothingComputed(X_up', X_down', forest_pred_up', forest_pred_down', margins')
              /\ fittedVars' = fittedVars
        /\ pc # "margin_error"]_vars

C18_Witness ==
    /\ pc = "margin_error"
    /\ ConstantColumn(X_eval, 1)
    /\ ~ConstantColumn(X_est, 1)
    /\ NothingComputed(X_up, X_down, forest_pred_up, forest_pred_down, margins)

\* the class probabilities assembled for every row of X, averaged over rows
MeanRowClassProbs(fs, X) ==
    LET cp == ClassProbs([i \in 1..Len(X) |-> ForestPredict(fs, X[i])])
    IN  [k \in 1..Len(cp[1]) |-> RMean([i \in 1..Len(X) |-> cp[i][k]])]

\* the effect of covariate x_id on class k from per-row class probabilities
RowwiseEffect(x_id, k) ==
    RDiv(RSub(MeanRowClassProbs(forests, XShifted(X_eval, X_up, x_id))[k],
              MeanRowClassProbs(forests, XShifted(X_eval, X_down, x_id))[k]),
         ScalingFactor(X_up, X_down, n_unique)[x_id])

\* C19: for every covariate x and class c the marginal effect equals the mean
\* over evaluation rows of the class-c probability assembled per row under the
\* up-shifted matrix, minus the same mean under the down-shifted matrix,
\* divided by s_x (mean of up - down for a continuous covariate, 1 for a
\* binary or categorical one).
C19_EffectFromRowwiseClassProbs ==
    pc = "margin_done" =>
        \A x_id \in 1..Len(margins) : \A k \in 1..Len(margins[x_id]) :
            margins[x_id][k] = RowwiseEffect(x_id, k)

\* C20: once the constant-covariate check is passed, every continuous
\* covariate has up > down in every evaluation row, a non-zero scaling factor
\* and no marginal effect that comes from a division by zero.
C20_ContinuousUpAboveDown ==
    pc \in {"margin_updown", "margin_predicted", "margin_done"} =>
        \A c \in XContinuous(n_unique) :
            /\ \A i \in 1..Len(X_up) : RLt(X_down[i][c], X_up[i][c])
            /\ ScalingFactor(X_up, X_down, n_unique)[c] # Num(0)
            /\ pc = "margin_done" => \A k \in 1..Len(margins[c]) : ~IsNaN(margins[c][k])

\* the number of distinct values of covariate c in X
DistinctValues(X, c) == Cardinality(Range(Column(X, c)))

C29_EffectsSumToZero ==
    pc = "margin_done" =>
        \A x_id \in 1..Len(margins) : RSum(margins[x_id]) = Num(0)

-----------------------------------------------------------------------------
(* The honest leaf means and the predictions read from them.               *)

LeafMaxLeaf == 2     \* leaf ids 0..LeafMaxLeaf

\* honest sample sizes, the number of trees and of rows outside the honest sample
LeafShape == [n_est |-> {1, 2}, n_trees |-> 2, n_other |-> 1]
LeafTrees == 1..LeafShape.n_trees

\* max_id = np.max(forest_apply) + 1
MaxId(fa) ==
    1 + CHOOSE m \in 0..LeafMaxLeaf + 1 :
            /\ \E j \in 1..Len(fa) : \E t \in 1..Len(fa[j]) : fa[j][t] = m
            /\ \A j \in 1..Len(fa) : \A t \in 1..Len(fa[j]) : fa[j][t] <= m

\* honest_fit_func(tree, forest_apply, outcome_ind_est, max_id): entry idx of
\* the model is leaf id idx - 1
honest_fit_func(t, fa, outcome_ind_est, max_id) ==
    [idx \in 1..max_id |->
        LET row_idx == {j \in 1..Len(fa) : fa[j][t] = idx - 1}
        IN  IF row_idx = {} THEN Num(0)
            ELSE Frac(ISum([j \in 1..Len(fa) |->
                               IF j \in row_idx THEN outcome_ind_est[j] ELSE 0]),
                      Cardinality(row_idx))]

\* honest_fit_numpy_func(tree, forest_apply, outcome_ind_est, max_id)
honest_fit_numpy_func(t, fa, outcome_ind_est, max_id) ==
    LET col == Column(fa, t)
        u == Unique(col)
        onehot == OneHot(col)
        leaf_sums == [c \in 1..Len(u) |->
                         ISum([j \in 1..Len(col) |-> onehot[j][c] * outcome_ind_est[j]])]
        leaf_n == [c \in 1..Len(u) |-> ISum([j \in 1..Len(col) |-> onehot[j][c]])]
    IN  [idx \in 1..max_id |->
            IF idx - 1 \in Range(u)
            THEN LET c == CHOOSE d \in 1..Len(u) : u[d] = idx - 1
                 IN  Frac(leaf_sums[c], leaf_n[c])
            ELSE Num(0)]

\* fitted[class_idx] = np.vstack(leaf_means).T: one row per leaf id, one
\* column per tree
FittedTable(pred_method, fa, outcome_ind_est) ==
    [idx \in 1..MaxId(fa) |-> [t \in 1..NCols(fa) |->
        IF pred_method = "loop"
        THEN honest_fit_func(t, fa, outcome_ind_est, MaxId(fa))[idx]
        ELSE honest_fit_numpy_func(t, fa, outcome_ind_est, MaxId(fa))[idx]]]

\* y_hat = fitted[forest_apply, grid]: numpy raises IndexError for a leaf id
\* that is not a row of the table
LeafLookup(tab, fa_all) ==
    IF \E i \in 1..Len(fa_all) : \E t \in 1..Len(fa_all[i]) : fa_all[i][t] + 1 > Len(tab)
    THEN [err |-> "IndexError", probs |-> <<>>]
    ELSE [err |-> "none",
          probs |-> [i \in 1..Len(fa_all) |->
                        <<RMean([t \in 1..Len(fa_all[i]) |-> tab[fa_all[i][t] + 1][t]])>>]]

InitLeaf ==
    /\ pc = "start"
    /\ call \in {"fit_leafmeans", "predict_leafmeans", "predict_weights"}
    /\ \E n \in LeafShape.n_est :
          /\ forest_apply \in LeafMatrices(n, LeafShape.n_trees, 0..LeafMaxLeaf)
          /\ outcome_binary_est \in [1..1 -> [1..n -> {0, 1}]]
    /\ \E other \in LeafMatrices(LeafShape.n_other, LeafShape.n_trees, 0..LeafMaxLeaf) :
          forest_apply_all = IF call = "fit_leafmeans" THEN forest_apply \o other ELSE other
    /\ weight_method = "numpy_loop"
    /\ forest_apply_tr = <<>> /\ ind_est = <<>> /\ ind_tr = <<>>
    /\ forest_out = <<>> /\ trees_out = <<>>
    /\ tree = 0 /\ task = <<>> /\ lock = 0
    /\ buffer_init = <<>> /\ buffer_read = <<>>
    /\ tree_out = <<>> /\ leaf_size = <<>>
    /\ nclass = 2 /\ probs = <<>> /\ class_probs = <<>>
    /\ weights = <<>> /\ var_n = 0 /\ cut_variance = <<>> /\ variance = <<>>
    /\ MarginIdle
    /\ EstimatorIdle

\* fit: the table of honest leaf means of one cut-point
LeafHonestFit ==
    /\ pc = "start" /\ call \in {"fit_leafmeans", "predict_leafmeans"}
    /\ \E pred_method \in {"loop", "numpy_loop"} :
          fitted' = FittedTable(pred_method, forest_apply, outcome_binary_est[1])
    /\ pc' = "leaf_fitted"
    /\ UNCHANGED <<treeVars, forestVars, probVars, varVars, estimatorVars, X_est, forests,
                   X_eval, eval_point, window, n_unique, X_up, X_down, forest_pred_up,
                   forest_pred_down, margins>>

\* the leaf means read out for the rows of fa_all, averaged over the trees
LeafRead ==
    /\ \E r \in {LeafLookup(fitted, forest_apply_all)} :
          /\ probs' = r.probs
          /\ pc' = IF r.err = "none" THEN "leaf_done" ELSE "index_error"
    /\ UNCHANGED <<treeVars, forestVars, varVars, marginVars, estimatorVars, nclass,
                   class_probs>>

\* fit: the predictions of the whole fit sample from the leaf means
FitLeafMeans == pc = "leaf_fitted" /\ call = "fit_leafmeans" /\ LeafRead

\* predict_leafmeans: the predictions of new data from the leaf means
PredictLeafMeans == pc = "leaf_fitted" /\ call = "predict_leafmeans" /\ LeafRead

\* predict_weights: the forest weights and the predictions made with them
PredictWeights ==
    /\ pc = "start" /\ call = "predict_weights"
    /\ \E w \in {NumpyLoopWeights(forest_apply, forest_apply_all)} :
          /\ forest_out' = w
          /\ probs' = WeightPredictions(<<w>>, outcome_binary_est, nclass)
    /\ pc' = "weights_done"
    /\ UNCHANGED <<treeVars, call, weight_method, buffer_init, buffer_read, forest_apply_tr,
                   ind_est, ind_tr, trees_out, tree, task, lock, varVars, marginVars,
                   estimatorVars, nclass, class_probs>>

NextLeaf == LeafHonestFit \/ FitLeafMeans \/ PredictLeafMeans \/ PredictWeights

SpecLeaf == InitLeaf /\ [][NextLeaf]_vars

\* the largest leaf id of the honest sample
MaxHonestLeaf ==
    CHOOSE m \in 0..LeafMaxLeaf + 1 :
        /\ \E j \in 1..Len(forest_apply) : \E t \in LeafTrees : forest_apply[j][t] = m
        /\ \A j \in 1..Len(forest_apply) : \A t \in LeafTrees : forest_apply[j][t] <= m

\* C23: the leaf-means table has max_id rows, max_id = 1 + the largest leaf id
\* of the honest sample, and every leaf id used to index it, from the full fit
\* sample or from new data, is smaller than max_id; no lookup is out of bounds.
C23_LeafIdsWithinTable ==
    pc \in {"leaf_fitted", "leaf_done", "index_error"} =>
        /\ Len(fitted) = 1 + MaxHonestLeaf
        /\ \A i \in 1..Len(forest_apply_all) : \A t \in LeafTrees :
               forest_apply_all[i][t] < Len(fitted)
        /\ pc # "index_error"

\* the cumulative probabilities predict_leafmeans returns for the evaluation rows
LeafMeansProbs(pred_method) ==
    LeafLookup(FittedTable(pred_method, forest_apply, outcome_binary_est[1]),
               forest_apply_all)

\* C28: for the same fitted forest and the same evaluation data the cumulative
\* probability from the forest weights equals the one from the leaf means,
\* whichever of the two prediction paths is run.
C28_WeightsAgreeWithLeafMeans ==
    /\ pc = "weights_done" =>
          \A pred_method \in {"loop", "numpy_loop"} :
             /\ LeafMeansProbs(pred_method).err = "none"
             /\ probs = LeafMeansProbs(pred_method).probs
    /\ (pc \in {"leaf_done", "index_error"} /\ call = "predict_leafmeans") =>
          probs = WeightPredictions(<<NumpyLoopWeights(forest_apply, forest_apply_all)>>,
                                    outcome_binary_est, nclass)

-----------------------------------------------------------------------------
(* input_checks and the sample split of successive fit calls on one        *)
(* estimator object.                                                       *)

MaxFits == 2         \* fit calls made on the estimator object

\* the stream of a RandomState, stood in for by a linear congruential generator
Rng == [a |-> 5, c |-> 3, m |-> 8]

\* __init__: honesty_fraction=0.5
honesty_fraction == <<1, 2>>

\* the n_jobs arguments, the core counts and the integer seeds given to __init__
JobArgs == {-1, 0, 1, 2, 3}
CoreCounts == {1, 2}
Seeds == {0, 1, 2}
\* the number of rows of X
FitSizes == {2, 3, 4}

Advance(st) == (Rng.a * st + Rng.c) % Rng.m

\* sklearn.utils.check_random_state: an int seeds a new RandomState, a
\* RandomState instance is returned as it is
check_random_state(seed) ==
    IF seed.kind = "int" THEN [kind |-> "RandomState", state |-> seed.state % Rng.m]
    ELSE seed

\* RandomState.randint(max_int): the next number of the stream
randint(rs) ==
    [out |-> Advance(rs.state), rs |-> [kind |-> "RandomState", state |-> Advance(rs.state)]]

RECURSIVE Shuffle(_, _, _)
Shuffle(x, i, st) ==
    IF i <= 1 THEN x
    ELSE Shuffle([x EXCEPT ![i] = x[(Advance(st) % i) + 1], ![(Advance(st) % i) + 1] = x[i]],
                 i - 1, Advance(st))

\* rng.permutation(n_samples) of the row numbers
permutation(n, rs) == Shuffle([k \in 1..n |-> k], n, rs.state)

\* ceil(test_size * n_samples)
NTest(n, test_size) ==
    (test_size[1] * n + test_size[2] - 1) \div test_size[2]

\* ind_tr, ind_est = train_test_split(np.arange(n_samples), test_size=..., random_state=...)
train_test_split(n, test_size, rs) ==
    [tr |-> SubSeq(permutation(n, rs), NTest(n, test_size) + 1, n),
     est |-> SubSeq(permutation(n, rs), 1, NTest(n, test_size))]

InitEstimator ==
    /\ pc = "start"
    /\ call = "fit"
    /\ n_jobs \in JobArgs
    /\ max_jobs \in CoreCounts
    /\ random_state \in [kind : {"int"}, state : Seeds]
    /\ subsample_random_seed = 0
    /\ splits = <<>>
    /\ returned = <<>> /\ n_calls = 0
    /\ forest_apply = <<>> /\ forest_apply_all = <<>>
    /\ tree_out = <<>> /\ leaf_size = <<>>
    /\ weight_method = "numpy_loop_shared_mpire"
    /\ forest_apply_tr = <<>> /\ ind_est = <<>> /\ ind_tr = <<>>
    /\ forest_out = <<>> /\ trees_out = <<>>
    /\ tree = 0 /\ task = <<>> /\ lock = 0
    /\ buffer_init = <<>> /\ buffer_read = <<>>
    /\ nclass = 2 /\ probs = <<>> /\ class_probs = <<>>
    /\ weights = <<>> /\ outcome_binary_est = <<>>
    /\ var_n = 0 /\ cut_variance = <<>> /\ variance = <<>>
    /\ MarginIdle

\* fit: self.input_checks(), the checks of n_jobs and of the random state
InputChecks ==
    /\ pc = "start" /\ call = "fit" /\ n_calls < MaxFits
    /\ \/ /\ n_jobs = -1
          /\ n_jobs' = max_jobs - 1
          /\ pc' = "checked"
       \/ /\ n_jobs >= 1 /\ n_jobs <= max_jobs
          /\ n_jobs' = n_jobs
          /\ pc' = "checked"
       \/ /\ n_jobs # -1 /\ ~(n_jobs >= 1 /\ n_jobs <= max_jobs)
          /\ n_jobs' = n_jobs
          /\ pc' = "value_error"
    /\ IF pc' = "checked"
       THEN /\ random_state' = randint(check_random_state(random_state)).rs
            /\ subsample_random_seed' = randint(check_random_state(random_state)).out
       ELSE UNCHANGED <<random_state, subsample_random_seed>>
    /\ UNCHANGED <<treeVars, forestVars, probVars, varVars, marginVars, max_jobs, splits,
                   returned, n_calls>>

\* fit: the honest split of the rows of X
FitSplit ==
    /\ pc = "checked"
    /\ \E n \in FitSizes :
       \E sp \in {train_test_split(n, honesty_fraction,
                       check_random_state([kind |-> "int", state |-> subsample_random_seed]))} :
          /\ ind_tr' = sp.tr
          /\ ind_est' = sp.est
    /\ pc' = "split"
    /\ UNCHANGED <<treeVars, call, weight_method, buffer_init, buffer_read, forest_apply_tr,
                   forest_out, trees_out, tree, task, lock, otherVars>>

\* fit: the forest of each cut-point draws the seeds of its trees from
\* self.random_state, the worker pool is made for self.n_jobs workers and fit
\* returns
FitForests ==
    /\ pc = "split"
    /\ random_state' = randint(random_state).rs
    /\ splits' = Append(splits, [n_samples |-> Len(ind_tr) + Len(ind_est),
                                 ind_tr |-> ind_tr, ind_est |-> ind_est,
                                 pool |-> n_jobs])
    /\ n_calls' = n_calls + 1
    /\ pc' = "start"
    /\ UNCHANGED <<treeVars, forestVars, probVars, varVars, marginVars, n_jobs, max_jobs,
                   subsample_random_seed, returned>>

NextEstimator == InputChecks \/ FitSplit \/ FitForests

SpecEstimator == InitEstimator /\ [][NextEstimator]_vars

\* C24: two fit calls on the same estimator object, made with the same integer
\* seed and the same number of rows, produce the same partition (ind_tr, ind_est).
C24_SamePartitionOnRefit ==
    \A i \in 1..Len(splits) : \A j \in 1..Len(splits) :
        splits[i].n_samples = splits[j].n_samples =>
            /\ splits[i].ind_tr = splits[j].ind_tr
            /\ splits[i].ind_est = splits[j].ind_est

\* C30: once input_checks has returned without raising, 1 <= n_jobs <= cpu_count(),
\* and every worker pool of fit was made with at least one worker.
C30_JobsWithinCores ==
    /\ pc \in {"checked", "split"} => (1 <= n_jobs /\ n_jobs <= max_jobs)
    /\ \A i \in 1..Len(splits) : splits[i].pool >= 1

-----------------------------------------------------------------------------
(* Successive predict and margin calls on one fitted estimator.            *)

MaxCalls == 2        \* predict and margin calls made after fit

\* the X of fit and the new X given to the calls
CallFitSamples == {AsMatrix(<<5, 5, 5>>, 0), AsMatrix(<<4, 5, 6>>, 0), AsMatrix(Cont11, 0)}
CallNewSample == AsMatrix(<<4, 6, 4, 6>>, 0)
CallForests ==
    {f \in MarginForests : f.column = 1 /\ f.threshold = Num(5) /\ f.left # f.right}

\* self.forest['probs']: the class probabilities of the fit sample
StoredProbs(fs, X) == ClassProbs([i \in 1..Len(X) |-> <<ForestPredict(fs, X[i])[1]>>])

\* self.forest as fit leaves it
FittedState ==
    <<X_est, forests, fitted, probs, outcome_binary_est, ind_est, ind_tr, weights, variance>>

\* the argument lists of predict(X) and margin(X, eval_point, window)
CallArgs ==
    [call : {"predict"}, X : {"None", "new"}, eval_point : {"mean"}, window : {Frac(1, 10)}]
    \cup [call : {"margin"}, X : {"None", "new"}, eval_point : {"mean", "atmean"},
          window : {Frac(1, 10)}]

\* X = None stands for the X of fit
ArgX(a) == IF a.X = "None" THEN X_est ELSE CallNewSample

\* the arguments of the running call
RunningArgs ==
    [call |-> call, X |-> IF X_eval = X_est THEN "None" ELSE "new",
     eval_point |-> eval_point, window |-> window]

EntryPoint(c) == IF c = "predict" THEN "predict_start" ELSE "start"

InitCalls ==
    /\ nclass = 2
    /\ X_est \in CallFitSamples
    /\ forests \in CallForests
    /\ fitted = <<>>
    /\ probs = StoredProbs(forests, X_est)
    /\ \E a \in CallArgs :
          /\ call = a.call
          /\ pc = EntryPoint(a.call)
          /\ X_eval = ArgX(a)
          /\ eval_point = a.eval_point
          /\ window = a.window
    /\ class_probs = <<>>
    /\ n_unique = <<>>
    /\ X_up = <<>> /\ X_down = <<>>
    /\ forest_pred_up = <<>> /\ forest_pred_down = <<>>
    /\ margins = <<>>
    /\ VarIdle
    /\ EstimatorIdle
    /\ forest_apply = <<>> /\ forest_apply_all = <<>>
    /\ tree_out = <<>> /\ leaf_size = <<>>
    /\ weight_method = "none"
    /\ forest_apply_tr = <<>> /\ ind_est = <<>> /\ ind_tr = <<>>
    /\ forest_out = <<>> /\ trees_out = <<>>
    /\ tree = 0 /\ task = <<>> /\ lock = 0
    /\ buffer_init = <<>> /\ buffer_read = <<>>

\* predict: the stored probabilities for the X of fit, else the class
\* probabilities of the cut-point predictions for X
Predict ==
    /\ pc = "predict_start"
    /\ class_probs' =
          IF X_eval = X_est THEN probs
          ELSE ClassProbs([i \in 1..Len(X_eval) |-> <<ForestPredict(forests, X_eval[i])[1]>>])
    /\ pc' = "predict_done"
    /\ UNCHANGED <<treeVars, forestVars, varVars, marginVars, estimatorVars, nclass, probs>>

\* what the finished call returns
CallResult ==
    IF pc = "margin_error" THEN [err |-> "ValueError", value |-> <<>>]
    ELSE IF pc = "margin_done" THEN [err |-> "none", value |-> margins]
    ELSE [err |-> "none", value |-> class_probs]

\* the call returns, its locals are dropped, and the next call is made
CallReturn ==
    /\ pc \in {"margin_done", "margin_error", "predict_done"}
    /\ returned' = Append(returned, [args |-> RunningArgs, result |-> CallResult])
    /\ n_calls' = n_calls + 1
    /\ class_probs' = <<>>
    /\ n_unique' = <<>>
    /\ X_up' = <<>> /\ X_down' = <<>>
    /\ forest_pred_up' = <<>> /\ forest_pred_down' = <<>>
    /\ margins' = <<>>
    /\ \/ /\ n_calls' < MaxCalls
          /\ \E a \in CallArgs :
                /\ call' = a.call
                /\ pc' = EntryPoint(a.call)
                /\ X_eval' = ArgX(a)
                /\ eval_point' = a.eval_point
                /\ window' = a.window
       \/ /\ n_calls' >= MaxCalls
          /\ pc' = "calls_done"
          /\ UNCHANGED <<call, X_eval, eval_point, window>>
    /\ UNCHANGED <<treeVars, weight_method, buffer_init, buffer_read, forest_apply_tr, ind_est,
                   ind_tr, forest_out, trees_out, tree, task, lock, varVars, fittedVars,
                   nclass, probs, n_jobs, max_jobs, random_state, subsample_random_seed,
                   splits>>

NextCalls ==
    Predict \/ MarginCheck \/ MarginUpDown \/ MarginPredict \/ MarginEffects \/ CallReturn

SpecCalls == InitCalls /\ [][NextCalls]_vars

\* C22: no step of a predict or margin call changes the fitted state, and two
\* calls with the same arguments return the same result.
C22_CallsLeaveFittedState ==
    /\ [][FittedState' = FittedState]_vars
    /\ [](\A i \in 1..Len(returned) : \A j \in 1..Len(returned) :
             returned[i].args = returned[j].args => returned[i].result = returned[j].result)

\* a margin call on the X of fit was repeated and returned the same effects
C22_Witness ==
    /\ Len(returned) = 2
    /\ returned[1].args = returned[2].args
    /\ returned[1].args.call = "margin" /\ returned[1].args.X = "None"
    /\ returned[1].result.err = "none"
    /\ returned[1].result = returned[2].result

====
